---- MODULE Spec2Model ----
(***************************************************************************)
(* content-tracker: the snapshot store (src/lib/snapshot-store.js) and the *)
(* refresh orchestration of the server (src/server.js).                    *)
(*                                                                         *)
(* Time is counted in hours: the clock, the dates of the snapshot entries  *)
(* and the retention window (days * HoursPerDay).  The code counts in      *)
(* milliseconds (days * 86400000); only the unit differs.                  *)
(***************************************************************************)
EXTENDS Integers, Sequences, FiniteSets, TLC

(* ------------------------------ bounds -------------------------------- *)
\* saveSnapshot calls issued by direct callers of the store in one run
MaxCalls == 2
\* hours the clock may advance during one run
MaxElapsed == 1
\* entries of the state file found at start-up
MaxInitEntries == 2
\* handler runs (requests and cron ticks) started in one run
MaxRequests == 2
\* the clock (hours) at start-up
InitClock == 2200
\* posts in a list handed to a function examined on its own
MaxPosts == 4
\* points of a history handed to the analyzer
MaxHistory == 32
\* the highest counter and the highest sum of counters in a ratio
MaxCounter == 12
\* the longest run of posts of one topic in a batch handed to the advisor
MaxRun == 51
\* the number of posts after the leading run of a batch handed to the advisor
MaxTail == 3
\* the largest number of posts one source has in the data of the overview
MaxPerSource == 3

(* -------------------------- program constants ------------------------- *)
\* Number(SNAPSHOT_RETENTION_DAYS || 90)
DefaultRetentionDays == 90
\* the 86400000 ms of a day, in the model's unit
HoursPerDay == 24
\* toDateMs: the null returned for a date Date.parse cannot read
NullMs == -1
\* a date field that is missing or that Date.parse cannot read
BadDate == -2

VARIABLES
    clock,          \* Date.now(), in hours
    retentionCfg,   \* config SNAPSHOT_RETENTION_DAYS (0: not set)
    file,           \* data/snapshots.json
    archive,        \* ids of the files written under data/snapshots/
    saveQueue,      \* the call whose task the module-level saveQueue chains on (0: the initial resolved promise)
    calls,          \* the saveSnapshot calls made so far, in call order
    enabled,        \* the sources whose task is enabled by the configuration
    isRefreshing,   \* server.js:112
    cache,          \* server.js:110
    cronState,      \* server.js:80-87
    reqs,           \* the handler runs started so far (HTTP requests, cron ticks)
    probe           \* a call of a function of the analyzer or the scorer: its arguments and its result

storeVars == <<clock, retentionCfg, file, archive, saveQueue, calls>>
serverVars == <<enabled, isRefreshing, cache, cronState, reqs, probe>>
vars == <<clock, retentionCfg, file, archive, saveQueue, calls,
          enabled, isRefreshing, cache, cronState, reqs, probe>>

Max(a, b) == IF a >= b THEN a ELSE b

(* ------------------------- the persisted state ------------------------ *)
\* An entry of the snapshots array. null = TRUE is a JSON null in its place.
Entry(id, date, reason, posts) ==
    [null |-> FALSE, id |-> id, date |-> date, reason |-> reason, posts |-> posts]

NullEntry == [null |-> TRUE, id |-> 0, date |-> BadDate, reason |-> "null", posts |-> <<>>]

\* What readFile + JSON.parse can find in data/snapshots.json:
\*   absent   no such file (ENOENT)
\*   corrupt  text that is not JSON (a truncated write, for one)
\*   null     the JSON value null
\*   nosnap   a JSON value with no snapshots property ({}, [], 5)
\*   badsnap  an object whose snapshots property is not an array ({"snapshots": 5})
\*   json     an object with a snapshots array, snaps
FileOf(kind, snaps) == [kind |-> kind, snaps |-> snaps]

EmptyStore == FileOf("json", <<>>)

\* toDateMs, snapshot-store.js:18-21
toDateMs(value) == IF value = BadDate THEN NullMs ELSE value

\* toSnapshotPost and the filter on postId, snapshot-store.js:23-28, 85.
\* postId 0 is the empty string.
toSnapshotPost(post) == [postId |-> post.postId, viewCount |-> post.viewCount]

SnapshotPosts(posts) ==
    SelectSeq([i \in 1..Len(posts) |-> toSnapshotPost(posts[i])], LAMBDA p : p.postId # 0)

\* snapshotStore.load, snapshot-store.js:35-52. outcome is what readFile did:
\* "data" (the text was read) or an error code.
ReadOutcomes(f) == IF f.kind = "absent" THEN {"ENOENT"} ELSE {"data", "EIO"}

load(f, outcome) ==
    IF outcome # "data" THEN EmptyStore
    ELSE IF f.kind = "corrupt" THEN EmptyStore
    ELSE f

\* Array.isArray(store?.snapshots) ? store.snapshots : [], snapshot-store.js:88
Existing(store) == IF store.kind = "json" THEN store.snaps ELSE <<>>

\* Math.max(1, Number(SNAPSHOT_RETENTION_DAYS || 90)), snapshot-store.js:89
RetentionDays(cfg) == Max(1, IF cfg = 0 THEN DefaultRetentionDays ELSE cfg)

\* Date.now() - retentionDays * 86400000, snapshot-store.js:90
Cutoff(now, cfg) == now - RetentionDays(cfg) * HoursPerDay

\* no snapshot is pruned
KeepEverySnapshot(snap, cutoff) == TRUE

\* the filter's predicate, snapshot-store.js:92-96
KeepSnapshot(snap, cutoff) ==
    LET ms == toDateMs(snap.date)
    IN  IF ms = NullMs THEN TRUE ELSE ms >= cutoff

RecentSnapshots(existing, cutoff) ==
    SelectSeq(existing, LAMBDA snap : KeepSnapshot(snap, cutoff))

\* snapshots: [...recentSnapshots, entry], snapshot-store.js:105-108
NextSnapshots(recent, entry) == Append(recent, entry)

(* ------------------------------ the queue ----------------------------- *)
Settled == {"fulfilled", "rejected"}

\* saveQueue = task: a rejected task leaves a rejected promise in the queue
QueuePromiseNoCatch(cs, p) ==
    IF p = 0 THEN "fulfilled"
    ELSE IF cs[p].st \in {"fulfilled", "rejected"} THEN cs[p].st
    ELSE "pending"

\* task = fn(): the function does not wait for the queue
QueuePromiseUnchained(cs, p) == "fulfilled"

\* The state of the promise a call leaves in saveQueue:
\* task.catch(() => undefined), snapshot-store.js:13
QueuePromise(cs, p) ==
    IF p = 0 THEN "fulfilled"
    ELSE IF cs[p].st \in Settled THEN "fulfilled"
    ELSE "pending"

\* A saveSnapshot call: its arguments, the queue promise its task chains on,
\* the task's progress (st), the locals of its body (now, existing, cutoff,
\* next: nextStore.snapshots), what its two writes did (primary, archived)
\* and what the caller gets (res).
Call(data, reason, prev) ==
    [data |-> data, reason |-> reason, prev |-> prev, st |-> "queued",
     now |-> 0, existing |-> <<>>, cutoff |-> 0, next |-> <<>>,
     primary |-> "none", archived |-> "none", res |-> "pending"]

\* queuedSave, snapshot-store.js:11-15
queuedSave(call) ==
    /\ calls' = Append(calls, call)
    /\ saveQueue' = Len(calls) + 1

\* meta?.reason === 'cron' ? 'cron' : 'manual', snapshot-store.js:83
Reason(meta) == IF meta = "cron" THEN "cron" ELSE "manual"

\* The arguments direct callers pass: posts that is not an array (the map of
\* line 85 throws), or an array of posts, one of them without a postId.
DataInputs(c) ==
    { [isArray |-> FALSE, posts |-> <<>>],
      [isArray |-> TRUE, posts |-> <<[postId |-> 0, viewCount |-> 5],
                                     [postId |-> c, viewCount |-> 10]>>] }

MetaInputs == {"cron", "other"}

\* saveSnapshot called by a caller of the module, snapshot-store.js:79-80
SaveSnapshotCall ==
    /\ Len(calls) < MaxCalls
    /\ \E data \in DataInputs(Len(calls) + 1), meta \in MetaInputs :
          queuedSave(Call(data, Reason(meta), saveQueue))
    /\ UNCHANGED <<clock, retentionCfg, file, archive, serverVars>>

\* The task's function starts once the queue promise it chains on is settled:
\* lines 81-87 up to the await of load(). On a rejected queue promise then()
\* does not run the function and the task is rejected with it.
BodyStart(c) ==
    /\ calls[c].st = "queued"
    /\ QueuePromise(calls, calls[c].prev) # "pending"
    /\ calls' = [calls EXCEPT ![c] =
          IF QueuePromise(calls, calls[c].prev) = "rejected"
            THEN [@ EXCEPT !.st = "rejected", !.res = "thrown"]
          ELSE IF ~ calls[c].data.isArray
            THEN [@ EXCEPT !.st = "rejected", !.res = "thrown", !.now = clock]
          ELSE [@ EXCEPT !.st = "load", !.now = clock]]
    /\ UNCHANGED <<clock, retentionCfg, file, archive, saveQueue, serverVars>>

\* The entry a call appends, snapshot-store.js:98-103
EntryOf(call) ==
    Entry(call.now, call.now, call.reason, SnapshotPosts(call.data.posts))

\* load() returns: lines 88-113 up to the await of the primary write.
LoadDone(c) ==
    /\ calls[c].st = "load"
    /\ \E outcome \in ReadOutcomes(file) :
          LET store == load(file, outcome)
              cutoff == Cutoff(clock, retentionCfg)
              recent == RecentSnapshots(Existing(store), cutoff)
          IN  calls' = [calls EXCEPT ![c] =
                  [@ EXCEPT !.st = "write", !.existing = Existing(store),
                            !.cutoff = cutoff,
                            !.next = NextSnapshots(recent, EntryOf(calls[c]))]]
    /\ UNCHANGED <<clock, retentionCfg, file, archive, saveQueue, serverVars>>

\* What snapshotStore.save (mkdir, writeFile) can do, snapshot-store.js:54-57:
\* write the file, fail before touching it, or fail after truncating it.
WriteOutcomes == {"written", "failed", "truncated"}

\* the write's error leaves saveSnapshot: no catch
ThrownResult == [st |-> "rejected", res |-> "thrown"]

\* The result of a save whose write threw inside the try, snapshot-store.js:125-128
CaughtResult == [st |-> "fulfilled", res |-> "nopath_error"]

\* snapshotStore.save settles: lines 113-123 up to the await of the archive write.
PrimaryWriteDone(c) ==
    /\ calls[c].st = "write"
    /\ \E outcome \in WriteOutcomes :
          /\ file' = CASE outcome = "written" -> FileOf("json", calls[c].next)
                       [] outcome = "truncated" -> FileOf("corrupt", <<>>)
                       [] OTHER -> file
          /\ calls' = [calls EXCEPT ![c] =
                IF outcome = "written"
                  THEN [@ EXCEPT !.st = "archive", !.primary = "ok"]
                  ELSE [@ EXCEPT !.st = CaughtResult.st, !.res = CaughtResult.res,
                                 !.primary = "failed"]]
    /\ UNCHANGED <<clock, retentionCfg, archive, saveQueue, serverVars>>

\* The archive mkdir + writeFile settle: lines 114-128.
ArchiveDone(c) ==
    /\ calls[c].st = "archive"
    /\ \E ok \in BOOLEAN :
          /\ archive' = IF ok THEN archive \cup {calls[c].now} ELSE archive
          /\ calls' = [calls EXCEPT ![c] =
                IF ok THEN [@ EXCEPT !.st = "fulfilled", !.res = "path", !.archived = "ok"]
                      ELSE [@ EXCEPT !.st = CaughtResult.st, !.res = CaughtResult.res,
                                     !.archived = "failed"]]
    /\ UNCHANGED <<clock, retentionCfg, file, saveQueue, serverVars>>

\* Time passes.
Tick ==
    /\ clock < InitClock + MaxElapsed
    /\ clock' = clock + 1
    /\ UNCHANGED <<retentionCfg, file, archive, saveQueue, calls, serverVars>>

(* ------------------------- the trend analyzer ------------------------- *)
\* ANALYSIS.shortMA and ANALYSIS.longMA, config.js:69-70
ShortMA == 7
LongMA == 30

RECURSIVE SumSeq(_)
SumSeq(s) == IF s = <<>> THEN 0 ELSE Head(s) + SumSeq(Tail(s))

\* values.slice(-period), the window calculateMA averages
LastN(values, period) == SubSeq(values, Len(values) - period + 1, Len(values))

\* calculateMA, content-analyzer.js:12-16, as the pair <<sum of the window, period>>:
\* the mean is sum / period. available = FALSE is the null of a short series.
calculateMA(values, period) ==
    IF Len(values) < period
      THEN [available |-> FALSE, sum |-> 0, period |-> period]
      ELSE [available |-> TRUE, sum |-> SumSeq(LastN(values, period)), period |-> period]

\* prevShort < prevLong in place of prevShort <= prevLong
MaLeqStrict(a, b) == a.sum * b.period < b.sum * a.period

\* a < b, a <= b on two means, by cross-multiplication
MaLess(a, b) == a.sum * b.period < b.sum * a.period
MaLeq(a, b) == a.sum * b.period <= b.sum * a.period

\* the averages are taken over the points there are, from ShortMA + 1 points on
detectCrossEager(views) ==
    IF Len(views) <= ShortMA THEN "NONE"
    ELSE
      LET long(v) == IF Len(v) < LongMA THEN Len(v) ELSE LongMA
          prevViews == SubSeq(views, 1, Len(views) - 1)
          shortMA == [sum |-> SumSeq(LastN(views, ShortMA)), period |-> ShortMA]
          longMA == [sum |-> SumSeq(LastN(views, long(views))), period |-> long(views)]
          prevShort == [sum |-> SumSeq(LastN(prevViews, ShortMA)), period |-> ShortMA]
          prevLong == [sum |-> SumSeq(LastN(prevViews, long(prevViews))), period |-> long(prevViews)]
      IN  IF MaLeq(prevShort, prevLong) /\ MaLess(longMA, shortMA) THEN "GOLDEN"
          ELSE IF MaLeq(prevLong, prevShort) /\ MaLess(shortMA, longMA) THEN "DEAD"
          ELSE "NONE"

\* detectCross, content-analyzer.js:50-71: the cross of a series of view counts
detectCross(views) ==
    IF Len(views) < LongMA THEN "NONE"
    ELSE
      LET shortMA == calculateMA(views, ShortMA)
          longMA == calculateMA(views, LongMA)
          prevViews == SubSeq(views, 1, Len(views) - 1)
          prevShort == calculateMA(prevViews, ShortMA)
          prevLong == calculateMA(prevViews, LongMA)
      IN  IF ~ shortMA.available \/ ~ longMA.available THEN "NONE"
          ELSE IF Len(views) > LongMA /\ prevShort.available /\ prevLong.available
            THEN IF MaLeq(prevShort, prevLong) /\ MaLess(longMA, shortMA) THEN "GOLDEN"
                 ELSE IF MaLeq(prevLong, prevShort) /\ MaLess(shortMA, longMA) THEN "DEAD"
                 ELSE "NONE"
          ELSE "NONE"

\* the trend.cross of analyzeTrend, content-analyzer.js:76-95
TrendCross(views) == IF Len(views) >= ShortMA THEN detectCross(views) ELSE "NONE"

\* the null detectCross returns for an average it did not compute
NullMA == -1

\* Math.round of a mean of view counts (none negative), content-analyzer.js:70
RoundMA(ma) == (2 * ma.sum + ma.period) \div (2 * ma.period)

\* the shortMA and longMA detectCross returns, content-analyzer.js:51, 57, 70
ReturnedMA(views, period) ==
    IF Len(views) < LongMA THEN NullMA ELSE RoundMA(calculateMA(views, period))

\* What detectCross returns, content-analyzer.js:50-71
CrossResult(views) ==
    [cross |-> detectCross(views),
     shortMA |-> ReturnedMA(views, ShortMA),
     longMA |-> ReturnedMA(views, LongMA)]

(* ---------------------- velocity and its factor ----------------------- *)
\* safeDate, utils.js:6-18, on a publish time in hours or BadDate
safeDate(value, fallbackMs) == IF value = BadDate THEN fallbackMs ELSE value

\* Math.round(a / b) for a >= 0 and b > 0
RoundDiv(a, b) == (2 * a + b) \div (2 * b)

\* safeDivide, utils.js:20-28, followed by Math.round: content-analyzer.js:30, 34
RoundedSafeDivide(a, b) == IF b = 0 THEN 0 ELSE RoundDiv(a, b)

\* calcViewVelocity, content-analyzer.js:22-35, with whole hours since the
\* publish time. For naver the counter is divided by max(1, hours / 24) days.
calcViewVelocity(post, now) ==
    LET published == safeDate(post.publishedAt, now)
        hours == Max(1, now - published)
    IN  IF post.source = "naver" /\ hours > HoursPerDay
          THEN RoundedSafeDivide(HoursPerDay * post.viewCount, hours)
          ELSE RoundedSafeDivide(post.viewCount, hours)

\* The steps of a threshold table, highest first: the value of the first
\* threshold that x reaches, else the floor value.
RECURSIVE Steps(_, _, _)
Steps(x, table, floor) ==
    IF table = <<>> THEN floor
    ELSE IF x >= Head(table)[1] THEN Head(table)[2]
    ELSE Steps(x, Tail(table), floor)

\* normalizeVelocity, content-scorer.js:223-260, in tenths. The rss thresholds
\* 1 and 0.5 are compared with twice the velocity.
normalizeVelocity(velocity, source) ==
    CASE source = "naver" ->
           Steps(velocity, <<<<800, 10>>, <<500, 8>>, <<200, 6>>, <<50, 4>>>>, 2)
      [] source = "youtube" ->
           Steps(velocity, <<<<500, 10>>, <<200, 8>>, <<50, 6>>, <<10, 4>>>>, 2)
      [] source = "twitter" ->
           Steps(velocity, <<<<200, 10>>, <<100, 8>>, <<30, 6>>, <<5, 4>>>>, 2)
      [] source = "rss" ->
           Steps(2 * velocity, <<<<2, 8>>, <<1, 6>>>>, 4)
      [] OTHER ->
           Steps(velocity, <<<<100, 10>>, <<50, 8>>, <<20, 6>>, <<5, 4>>>>, 2)

(* ------------------------------- the scorer --------------------------- *)
\* calcGrowthScore, content-scorer.js:300-306, in tenths. trend.shortMA &&
\* trend.longMA holds for an average that is neither null nor 0.
calcGrowthScore(views) ==
    LET trend == CrossResult(views)
    IN  IF trend.cross = "GOLDEN" THEN 10
        ELSE IF /\ trend.shortMA # NullMA /\ trend.shortMA # 0
                /\ trend.longMA # NullMA /\ trend.longMA # 0
                /\ trend.shortMA > trend.longMA THEN 7
        ELSE IF trend.cross = "DEAD" THEN 2
        ELSE 5

\* SCORING.weights, config.js:54-60
WeightViewVelocity == 25
WeightEngagementRate == 25
WeightGrowthTrend == 20
WeightTopicPerformance == 15
WeightChannelRelative == 15

\* SCORING.thresholds, config.js:61-64, in tenths of a point
ThresholdDoubleDown == 750
ThresholdMaintain == 400

\* A post as the adapters normalize it, with the fields the scorer reads.
\* viewCount 0 also stands for a counter the post does not carry.
ScoredInput(source, postId, title, publishedAt, viewCount, likeCount, commentCount) ==
    [source |-> source, postId |-> postId, title |-> title, publishedAt |-> publishedAt,
     viewCount |-> viewCount, likeCount |-> likeCount, commentCount |-> commentCount]

\* the topics of TOPIC_KEYWORDS, config.js:75-82, and the 'Other' of detectTopic
Topics == {"AI", "Programming", "Startup", "Finance", "Productivity", "Career", "Other"}

\* the topics of TOPIC_KEYWORDS in the order the table declares them
TopicTable == <<"AI", "Programming", "Startup", "Finance", "Productivity", "Career">>

TopicIndex(t) == CHOOSE i \in 1..Len(TopicTable) : TopicTable[i] = t

\* the titles the posts of the model carry
Titles ==
    {"", "GPT-5 and Python", "Rust tips", "Sourdough", "Startup founder salary",
     "Crypto trading job", "Notion workflow"}

\* The number of keywords of a topic of TOPIC_KEYWORDS, config.js:75-82, that
\* a title contains, whatever the case of the letters.
KeywordMatches(title, topic) ==
    CASE title = "GPT-5 and Python" /\ topic = "AI" -> 1
      [] title = "GPT-5 and Python" /\ topic = "Programming" -> 1
      [] title = "Rust tips" /\ topic = "Programming" -> 1
      [] title = "Startup founder salary" /\ topic = "Startup" -> 2
      [] title = "Startup founder salary" /\ topic = "Career" -> 1
      [] title = "Crypto trading job" /\ topic = "Finance" -> 2
      [] title = "Crypto trading job" /\ topic = "Career" -> 1
      [] title = "Notion workflow" /\ topic = "Productivity" -> 2
      [] OTHER -> 0

\* detectTopic, content-scorer.js:341-350: the first topic of the table one of
\* whose keywords the title contains, 'Other' for none and for an empty title.
detectTopic(title) ==
    LET hits == { i \in 1..Len(TopicTable) : KeywordMatches(title, TopicTable[i]) > 0 }
    IN  IF hits = {} THEN "Other"
        ELSE TopicTable[CHOOSE i \in hits : \A j \in hits : i <= j]

\* the mean of a list of counters as the pair sum, n; n = 0: no such mean
Mean(values) == [sum |-> SumSeq(values), n |-> Len(values)]

NoMean == [sum |-> 0, n |-> 0]

Counters(posts) == [i \in 1..Len(posts) |-> posts[i].viewCount]

\* the mean counter of all the posts, whatever their source
GlobalAverage(posts, source) == Mean(Counters(posts))

\* calcSourceAverages, content-scorer.js:368-380, read at one source
calcSourceAverages(posts, source) ==
    Mean(Counters(SelectSeq(posts, LAMBDA p : p.source = source)))

\* calcTopicAveragesBySource, content-scorer.js:383-400, read at one source:
\* the mean counter of each topic among the posts of the source
calcTopicAveragesBySource(posts, source) ==
    [t \in Topics |->
        Mean(Counters(SelectSeq(posts,
               LAMBDA p : p.source = source /\ detectTopic(p.title) = t)))]

\* a threshold table whose thresholds are multiplied by d
Scaled(table, d) == [i \in 1..Len(table) |-> <<table[i][1] * d, table[i][2]>>]

\* calcEngagementRate, content-analyzer.js:40-45, as the fraction num / den;
\* safeDivide gives 0 for den = 0
calcEngagementRate(post) ==
    [num |-> post.likeCount + post.commentCount, den |-> post.viewCount]

\* the rate itself, in tenths, without a table
EngagementUnbounded(rate, source) ==
    IF rate.den = 0 THEN 0 ELSE (10 * rate.num) \div rate.den

\* normalizeEngagement, content-scorer.js:263-297, in tenths; the thresholds
\* are in thousandths
normalizeEngagement(rate, source) ==
    IF source = "rss" THEN 5
    ELSE IF rate.den = 0 THEN 2
    ELSE LET x == 1000 * rate.num
             d == rate.den
         IN  CASE source = "naver" ->
                    Steps(x, Scaled(<<<<150, 10>>, <<80, 7>>, <<30, 4>>>>, d), 2)
               [] source = "youtube" ->
                    Steps(x, Scaled(<<<<50, 10>>, <<30, 8>>, <<10, 6>>, <<5, 4>>>>, d), 2)
               [] source = "twitter" ->
                    Steps(x, Scaled(<<<<100, 10>>, <<50, 8>>, <<20, 6>>, <<5, 4>>>>, d), 2)
               [] OTHER ->
                    Steps(x, Scaled(<<<<1500, 10>>, <<1000, 8>>, <<500, 6>>, <<200, 4>>>>, d), 2)

\* calcTopicScore, content-scorer.js:309-320, in tenths: the ratio
\* viewCount / avg against 2.0, 1.5, 1.0 and 0.5 (thresholds in halves)
calcTopicScore(post, topicAvg) ==
    LET avg == topicAvg[detectTopic(post.title)]
    IN  IF avg.n = 0 \/ avg.sum = 0 THEN 5
        ELSE Steps(2 * post.viewCount * avg.n,
                   Scaled(<<<<4, 10>>, <<3, 8>>, <<2, 6>>, <<1, 3>>>>, avg.sum), 1)

\* calcChannelRelative, content-scorer.js:323-331, in tenths: the ratio
\* viewCount / channelAvg against 3.0, 2.0, 1.0 and 0.5
calcChannelRelative(post, channelAvg) ==
    IF channelAvg.n = 0 \/ channelAvg.sum = 0 THEN 5
    ELSE Steps(2 * post.viewCount * channelAvg.n,
               Scaled(<<<<6, 10>>, <<4, 8>>, <<2, 6>>, <<1, 3>>>>, channelAvg.sum), 1)

\* getSignal, content-scorer.js:334-338, on a total in tenths of a point
getSignal(total) ==
    IF total >= ThresholdDoubleDown THEN "DOUBLE_DOWN"
    ELSE IF total >= ThresholdMaintain THEN "MAINTAIN"
    ELSE "PIVOT_AWAY"

\* score, content-scorer.js:177-202. The factors and the total are in tenths
\* of a point: a normalized value in tenths times its weight.
score(post, context, now) ==
    LET factors ==
          [viewVelocity |->
               normalizeVelocity(calcViewVelocity(post, now), post.source) * WeightViewVelocity,
           engagementRate |->
               normalizeEngagement(calcEngagementRate(post), post.source) * WeightEngagementRate,
           growthTrend |-> calcGrowthScore(context.snapshots) * WeightGrowthTrend,
           topicPerformance |-> calcTopicScore(post, context.topicAvg) * WeightTopicPerformance,
           channelRelative |->
               calcChannelRelative(post, context.channelAvg) * WeightChannelRelative]
        total == factors.viewVelocity + factors.engagementRate + factors.growthTrend
                   + factors.topicPerformance + factors.channelRelative
    IN  [total |-> total, signal |-> getSignal(total), factors |-> factors]

\* Array.prototype.sort with (a, b) => b.scoring.total - a.scoring.total,
\* content-scorer.js:219: a stable sort, highest total first
\* a sort that puts a post before the posts of the same total
RECURSIVE InsertBeforeEqual(_, _)
InsertBeforeEqual(sorted, x) ==
    IF sorted = <<>> THEN <<x>>
    ELSE IF Head(sorted).scoring.total > x.scoring.total
      THEN <<Head(sorted)>> \o InsertBeforeEqual(Tail(sorted), x)
    ELSE <<x>> \o sorted

RECURSIVE InsertByTotal(_, _)
InsertByTotal(sorted, x) ==
    IF sorted = <<>> THEN <<x>>
    ELSE IF Head(sorted).scoring.total >= x.scoring.total
      THEN <<Head(sorted)>> \o InsertByTotal(Tail(sorted), x)
    ELSE <<x>> \o sorted

RECURSIVE SortByTotal(_)
SortByTotal(list) ==
    IF list = <<>> THEN <<>>
    ELSE InsertByTotal(SortByTotal(SubSeq(list, 1, Len(list) - 1)), list[Len(list)])

(* ------------------------ the strategy advisor ------------------------ *)
\* strategy-advisor.js. A scored post is a record post, topic, scoring as
\* scoreAll returns it; an average score is in hundredths of a point.
AvgDoubleDown == 6000
AvgPivotAway == 3000
MinPivotPosts == 2
ConcentrationShare == 50
TopTitles == 20
MaxUnexplored == 3

\* the keys of the topics object, strategy-advisor.js:16-24: the topics of the
\* posts in the order of their first post
RECURSIVE TopicKeys(_, _)
TopicKeys(scoredPosts, seen) ==
    IF scoredPosts = <<>> THEN <<>>
    ELSE IF Head(scoredPosts).topic \in seen THEN TopicKeys(Tail(scoredPosts), seen)
    ELSE <<Head(scoredPosts).topic>>
           \o TopicKeys(Tail(scoredPosts), seen \cup {Head(scoredPosts).topic})

\* a share that is cut to the percent below instead of rounded
ShareFloor(count, totalVideos) == (count * 100) \div totalVideos

\* Math.round(count / totalVideos * 100), strategy-advisor.js:32
Share(count, totalVideos) == RoundDiv(count * 100, totalVideos)

\* one entry of the analysis, strategy-advisor.js:29-41
PortfolioEntry(topic, scoredPosts) ==
    LET videos == SelectSeq(scoredPosts, LAMBDA q : q.topic = topic)
        count == Len(videos)
        totalViews == SumSeq([i \in 1..count |-> videos[i].post.viewCount])
        totalScore == SumSeq([i \in 1..count |-> videos[i].scoring.total])
        totalVideos == IF Len(scoredPosts) = 0 THEN 1 ELSE Len(scoredPosts)
    IN  [topic |-> topic,
         videoCount |-> count,
         share |-> Share(count, totalVideos),
         totalViews |-> totalViews,
         avgScore |-> IF count > 0 THEN RoundDiv(totalScore * 10, count) ELSE 0,
         avgViews |-> RoundDiv(totalViews, count)]

\* analysis.sort((a, b) => b.avgScore - a.avgScore), strategy-advisor.js:45
RECURSIVE InsertByAvg(_, _)
InsertByAvg(sorted, x) ==
    IF sorted = <<>> THEN <<x>>
    ELSE IF Head(sorted).avgScore >= x.avgScore
      THEN <<Head(sorted)>> \o InsertByAvg(Tail(sorted), x)
    ELSE <<x>> \o sorted

RECURSIVE SortByAvg(_)
SortByAvg(list) ==
    IF list = <<>> THEN <<>>
    ELSE InsertByAvg(SortByAvg(SubSeq(list, 1, Len(list) - 1)), list[Len(list)])

\* analyzePortfolio, strategy-advisor.js:13-48
analyzePortfolio(scoredPosts) ==
    LET keys == TopicKeys(scoredPosts, {})
    IN  SortByAvg([i \in 1..Len(keys) |-> PortfolioEntry(keys[i], scoredPosts)])

\* a PIVOT_AWAY test that does not look at the number of posts
PivotAwayAnyCount(t) == t.avgScore < AvgPivotAway

\* the filter of the PIVOT_AWAY signals, strategy-advisor.js:70
PivotAway(t) == t.avgScore < AvgPivotAway /\ t.videoCount >= MinPivotPosts

\* the signals of one type for the entries of the portfolio that pass a test,
\* in the order of the portfolio, strategy-advisor.js:58-90
SignalsOf(type, entries) ==
    [i \in 1..Len(entries) |-> [type |-> type, topic |-> entries[i].topic]]

\* the titles of all the scored posts
AllTitles(scoredPosts) ==
    [i \in 1..Len(scoredPosts) |-> scoredPosts[i].post.title]

\* scoredPosts.slice(0, 20).map(title), strategy-advisor.js:94
topTitles(scoredPosts) ==
    [i \in 1..(IF Len(scoredPosts) < TopTitles THEN Len(scoredPosts) ELSE TopTitles) |->
        scoredPosts[i].post.title]

\* relevanceScore, strategy-advisor.js:99-104
relevanceScore(topic, titles) ==
    SumSeq([i \in 1..Len(titles) |-> KeywordMatches(titles[i], topic)])

\* the sort of the candidates, strategy-advisor.js:109: highest relevance
\* first, then the order of the table
RECURSIVE InsertCandidate(_, _)
InsertCandidate(sorted, x) ==
    IF sorted = <<>> THEN <<x>>
    ELSE IF \/ Head(sorted).relevanceScore > x.relevanceScore
            \/ /\ Head(sorted).relevanceScore = x.relevanceScore
               /\ Head(sorted).index <= x.index
      THEN <<Head(sorted)>> \o InsertCandidate(Tail(sorted), x)
    ELSE <<x>> \o sorted

RECURSIVE SortCandidates(_)
SortCandidates(list) ==
    IF list = <<>> THEN <<>>
    ELSE InsertCandidate(SortCandidates(SubSeq(list, 1, Len(list) - 1)), list[Len(list)])

\* the candidates of the UNEXPLORED signals, strategy-advisor.js:93-110
candidates(scoredPosts, portfolio) ==
    LET existingTopics == { portfolio[i].topic : i \in 1..Len(portfolio) }
        titles == topTitles(scoredPosts)
        all == [i \in 1..Len(TopicTable) |->
                   [topic |-> TopicTable[i], index |-> i,
                    relevanceScore |-> relevanceScore(TopicTable[i], titles)]]
        sorted == SortCandidates(SelectSeq(all, LAMBDA c : c.topic \notin existingTopics))
    IN  SubSeq(sorted, 1, IF Len(sorted) < MaxUnexplored THEN Len(sorted) ELSE MaxUnexplored)

\* generateSignals, strategy-advisor.js:53-121
generateSignals(scoredPosts) ==
    LET portfolio == analyzePortfolio(scoredPosts)
    IN  [signals |->
             SignalsOf("DOUBLE_DOWN",
                       SelectSeq(portfolio, LAMBDA t : t.avgScore >= AvgDoubleDown))
             \o SignalsOf("PIVOT_AWAY", SelectSeq(portfolio, PivotAway))
             \o SignalsOf("CONCENTRATION_WARNING",
                          SelectSeq(portfolio, LAMBDA t : t.share >= ConcentrationShare))
             \o SignalsOf("UNEXPLORED", candidates(scoredPosts, portfolio)),
         portfolio |-> portfolio]

(* ------------------------------ the server ---------------------------- *)
\* SOURCE_NAMES, server.js:28, and the order of the tasks, server.js:119-145
Sources == <<"reddit", "naver", "twitter", "youtube", "rss">>
SourceSet == { Sources[i] : i \in 1..Len(Sources) }
SourceIndex(s) == CHOOSE i \in 1..Len(Sources) : Sources[i] = s

\* config CACHE_TTL_MS, in the model's unit
CacheTTL == 1

\* The k-th post of a source, as its adapter normalizes it.
Post(s, k) == [source |-> s, postId |-> 10 * SourceIndex(s) + k, viewCount |-> 10 * k]

\* What the fetchAll of a source can settle with:
\*   posts     fulfilled, one post, no error
\*   partial   fulfilled, two posts and an error
\*   empty     fulfilled, no post, no error
\*   errors    fulfilled, no post, errors (one of them with an empty message)
\*   rejected  rejected
FetchKinds == {"posts", "partial", "empty", "errors", "rejected"}

Settle(s, kind) ==
    CASE kind = "posts" ->
           [status |-> "fulfilled", posts |-> <<Post(s, 1)>>, errors |-> <<>>]
      [] kind = "partial" ->
           [status |-> "fulfilled", posts |-> <<Post(s, 1), Post(s, 2)>>,
            errors |-> <<[error |-> "HTTP 500"]>>]
      [] kind = "empty" ->
           [status |-> "fulfilled", posts |-> <<>>, errors |-> <<>>]
      [] kind = "errors" ->
           [status |-> "fulfilled", posts |-> <<>>,
            errors |-> <<[error |-> ""], [error |-> "timeout"]>>]
      [] OTHER ->
           [status |-> "rejected", posts |-> <<>>, errors |-> <<>>]

\* The Promise.allSettled of server.js:147-151: a disabled source resolves at
\* once with no posts and no errors.
Settlements(en, kinds) ==
    { f \in [SourceSet -> FetchKinds] :
        \A s \in SourceSet : IF s \in en THEN f[s] \in kinds ELSE f[s] = "empty" }

\* err?.error || err?.message || String(err), server.js:58
ErrorText(err) == IF err.error # "" THEN err.error ELSE "[object Object]"

\* summarizeErrors, server.js:55-62: the messages that are joined (at most 3);
\* the empty sequence is undefined.
summarizeErrors(errors) ==
    LET texts == SelectSeq([i \in 1..Len(errors) |-> ErrorText(errors[i])],
                           LAMBDA t : t # "")
    IN  SubSeq(texts, 1, IF Len(texts) < 3 THEN Len(texts) ELSE 3)

\* no source is ever marked as failed
SourceStateUnmarked(s, en, kind) ==
    [status |-> IF s \in en THEN "ok" ELSE "disabled",
     count |-> Len(Settle(s, kind).posts), error |-> <<>>]

\* The state of one source, server.js:156-185. error = <<>>: no error property.
SourceState(s, en, kind) ==
    LET result == Settle(s, kind)
        errorMessage == summarizeErrors(result.errors)
    IN  IF s \notin en THEN [status |-> "disabled", count |-> 0, error |-> <<>>]
        ELSE IF result.status = "fulfilled"
          THEN [status |-> IF Len(result.posts) = 0 /\ errorMessage # <<>>
                             THEN "error" ELSE "ok",
                count |-> Len(result.posts),
                error |-> errorMessage]
        ELSE [status |-> "error", count |-> 0, error |-> <<"rejected">>]

\* The posts a source adds to allPosts, server.js:171
SourcePosts(s, en, kind) ==
    IF s \in en /\ Settle(s, kind).status = "fulfilled" THEN Settle(s, kind).posts ELSE <<>>

\* allPosts after the forEach over the tasks, server.js:154-185
RECURSIVE AllPostsFrom(_, _, _)
AllPostsFrom(i, en, settled) ==
    IF i > Len(Sources) THEN <<>>
    ELSE SourcePosts(Sources[i], en, settled[Sources[i]]) \o AllPostsFrom(i + 1, en, settled)

AllPosts(en, settled) == AllPostsFrom(1, en, settled)

\* the key is the postId alone
DedupByPostId(post) == post.postId

\* The key of the cross-source deduplication, server.js:189
DedupKey(post) == <<post.source, post.postId>>

\* uniquePosts, server.js:187-193
RECURSIVE UniqueFrom(_, _)
UniqueFrom(posts, seen) ==
    IF posts = <<>> THEN <<>>
    ELSE IF DedupKey(Head(posts)) \in seen THEN UniqueFrom(Tail(posts), seen)
    ELSE <<Head(posts)>> \o UniqueFrom(Tail(posts), seen \cup {DedupKey(Head(posts))})

UniquePosts(posts) == UniqueFrom(posts, {})

\* store.snapshots || [] and buildSnapshotMap throw a TypeError on a store
\* that is null, on snapshots that cannot be iterated and on a null entry:
\* server.js:196, snapshot-store.js:64-73
BuildThrows(store) ==
    \/ store.kind \in {"null", "badsnap"}
    \/ store.kind = "json" /\ \E i \in 1..Len(store.snaps) : store.snaps[i].null

\* snapshotMap[postId] as the series of its view counts, snapshot-store.js:64-73
RECURSIVE History(_, _)
History(snaps, postId) ==
    IF snaps = <<>> THEN <<>>
    ELSE LET here == SelectSeq(Head(snaps).posts, LAMBDA p : p.postId = postId)
         IN  [i \in 1..Len(here) |-> here[i].viewCount] \o History(Tail(snaps), postId)

StoreSnaps(store) == IF store.kind = "json" THEN store.snaps ELSE <<>>

\* the map of scoreAll, content-scorer.js:209-218: each post with its topic
\* and its scoring, in input order. snaps is the list of snapshot entries the
\* snapshotMap of the context was built from.
MapScored(posts, snaps, now) ==
    [i \in 1..Len(posts) |->
        [post |-> posts[i],
         topic |-> detectTopic(posts[i].title),
         scoring |-> score(posts[i],
                           [channelAvg |-> calcSourceAverages(posts, posts[i].source),
                            topicAvg |-> calcTopicAveragesBySource(posts, posts[i].source),
                            snapshots |-> History(snaps, posts[i].postId)],
                           now)]]

\* scoreAll, content-scorer.js:205-220: the map, then the sort
scoreAll(posts, snaps, now) == SortByTotal(MapScored(posts, snaps, now))

\* analyzeAll, content-analyzer.js:100-102: one trend per post, in input order
analyzeAll(posts, snaps) ==
    [i \in 1..Len(posts) |->
        [postId |-> posts[i].postId, source |-> posts[i].source,
         cross |-> TrendCross(History(snaps, posts[i].postId))]]

\* The result of a fetch cycle, server.js:202-210. posts holds the scored
\* posts in the order of uniquePosts: the order scoreAll gives them is not
\* part of this section.
Result(sources, posts, trends, now) ==
    [sources |-> sources, posts |-> posts, trends |-> trends, fetchedAt |-> now]

NoData == [none |-> TRUE]

\* A handler run: its kind (manual: POST /api/content/refresh, cron:
\* runCronRefresh, read: a GET endpoint), where it stands and its locals.
Req(kind, pc, resp) ==
    [kind |-> kind, pc |-> pc, resp |-> resp, forced |-> kind # "read",
     order |-> <<>>, settled |-> <<>>, sources |-> <<>>, all |-> <<>>, unique |-> <<>>,
     data |-> NoData, call |-> 0]

\* if (!forceRefresh && cache.data && (Date.now() - cache.fetchedAt) < CACHE_TTL)
CacheFresh == cache.data # NoData /\ (clock - cache.fetchedAt) < CacheTTL

\* refreshAndSnapshot without the test of the flag
PostRefreshUnguarded ==
    /\ reqs' = Append(reqs, Req("manual", "fetch", "none"))
    /\ isRefreshing' = TRUE
    /\ UNCHANGED <<storeVars, enabled, cache, cronState, probe>>

\* a refresh whose getData is not forced: a fresh cache answers it
PostRefreshCached ==
    /\ reqs' = Append(reqs,
          IF isRefreshing THEN Req("manual", "done", "409")
          ELSE IF CacheFresh THEN [Req("manual", "done", "200") EXCEPT !.data = cache.data]
          ELSE Req("manual", "fetch", "none"))
    /\ isRefreshing' = (isRefreshing \/ ~ CacheFresh)
    /\ UNCHANGED <<storeVars, enabled, cache, cronState, probe>>

\* POST /api/content/refresh arrives: server.js:353-355 and refreshAndSnapshot
\* up to the await inside getData(true), server.js:219-228, 114-151
PostRefresh ==
    /\ reqs' = Append(reqs,
          IF isRefreshing THEN Req("manual", "done", "409")
                          ELSE Req("manual", "fetch", "none"))
    /\ isRefreshing' = TRUE
    /\ UNCHANGED <<storeVars, enabled, cache, cronState, probe>>

\* A cron tick: runCronRefresh up to the same await, server.js:236-245
CronTick ==
    /\ reqs' = Append(reqs,
          IF isRefreshing THEN Req("cron", "done", "skipped")
                          ELSE Req("cron", "fetch", "none"))
    /\ cronState' = IF isRefreshing THEN cronState
                    ELSE [cronState EXCEPT !.lastRunAt = clock]
    /\ isRefreshing' = TRUE
    /\ UNCHANGED <<storeVars, enabled, cache, probe>>

\* A GET endpoint arrives and calls getData(): server.js:259, 114-151
GetRequest ==
    /\ reqs' = Append(reqs,
          IF CacheFresh THEN [Req("read", "done", "200") EXCEPT !.data = cache.data]
                        ELSE Req("read", "fetch", "none"))
    /\ UNCHANGED <<storeVars, enabled, isRefreshing, cache, cronState, probe>>

\* Promise.allSettled resolves: the merge and the deduplication, up to the
\* await of snapshotStore.load(), server.js:153-195
FetchSettled(r, kinds) ==
    /\ reqs[r].pc = "fetch"
    /\ \E settled \in Settlements(enabled, kinds) :
          reqs' = [reqs EXCEPT ![r] =
              [@ EXCEPT !.pc = "load",
                        !.settled = settled,
                        !.all = AllPosts(enabled, settled),
                        !.sources = [s \in SourceSet |-> SourceState(s, enabled, settled[s])],
                        !.unique = UniquePosts(AllPosts(enabled, settled))]]
    /\ UNCHANGED <<storeVars, enabled, isRefreshing, cache, cronState, probe>>

\* no finally: the flag stays as it is
KeepFlag(req, flag) == flag

\* One of the promises handed to Promise.allSettled settles while getData
\* awaits: allSettled puts the result in the slot of its task, server.js:147-151.
\* order is the order the promises settled in.
AdapterSettles(r, kinds) ==
    /\ reqs[r].pc = "fetch"
    /\ \E s \in SourceSet \ DOMAIN reqs[r].settled :
       \E kind \in (IF s \in enabled THEN kinds ELSE {"empty"}) :
          reqs' = [reqs EXCEPT ![r] =
              [@ EXCEPT !.order = Append(@, s),
                        !.settled = [t \in DOMAIN @ \cup {s} |-> IF t = s THEN kind ELSE @[t]]]]
    /\ UNCHANGED <<storeVars, enabled, isRefreshing, cache, cronState, probe>>

\* allPosts grows in the order the fetches completed
CompletionOrder(order) == order

\* tasks.forEach((task, idx) => ... settled[idx] ...), server.js:156-165: the
\* merge walks the tasks array, whatever order the promises settled in.
MergeOrder(order) == Sources

\* allPosts after a walk over the sources in the given order, server.js:154-185
RECURSIVE MergeIn(_, _, _)
MergeIn(walk, en, settled) ==
    IF walk = <<>> THEN <<>>
    ELSE SourcePosts(Head(walk), en, settled[Head(walk)]) \o MergeIn(Tail(walk), en, settled)

\* Every promise has settled: Promise.allSettled resolves, then the merge and
\* the deduplication up to the await of snapshotStore.load(), server.js:153-195
MergeSettled(r) ==
    /\ reqs[r].pc = "fetch"
    /\ DOMAIN reqs[r].settled = SourceSet
    /\ LET req == reqs[r]
           allPosts == MergeIn(MergeOrder(req.order), enabled, req.settled)
       IN  reqs' = [reqs EXCEPT ![r] =
              [@ EXCEPT !.pc = "load",
                        !.sources = [s \in SourceSet |-> SourceState(s, enabled, req.settled[s])],
                        !.all = allPosts,
                        !.unique = UniquePosts(allPosts)]]
    /\ UNCHANGED <<storeVars, enabled, isRefreshing, cache, cronState, probe>>

\* finally { isRefreshing = false }, server.js:231-233: the flag once the
\* getData or the refresh of a handler run is over.
ReleaseRefresh(req, flag) == IF req.forced THEN FALSE ELSE flag

\* What the handler does once its getData or its refresh has thrown:
\* the finally of server.js:231-233 and the catch of each caller.
Failed(req) ==
    [req EXCEPT !.pc = "done",
                !.resp = IF req.kind = "cron" THEN "failed" ELSE "500"]

\* snapshotStore.load() returns to getData: server.js:196-213. A refresh goes
\* on to saveSnapshot, server.js:229, up to the await of its task.
GetLoadDone(r) ==
    /\ reqs[r].pc = "load"
    /\ \E outcome \in ReadOutcomes(file) :
          LET store == load(file, outcome)
              req == reqs[r]
              result == Result(req.sources, req.unique,
                               analyzeAll(req.unique, StoreSnaps(store)), clock)
          IN  IF BuildThrows(store)
                THEN /\ reqs' = [reqs EXCEPT ![r] = Failed(req)]
                     /\ isRefreshing' = ReleaseRefresh(req, isRefreshing)
                     /\ cronState' = IF req.kind = "cron"
                                       THEN [cronState EXCEPT !.lastError = "TypeError"]
                                       ELSE cronState
                     /\ UNCHANGED <<cache, calls, saveQueue>>
                ELSE /\ cache' = [data |-> result, fetchedAt |-> clock]
                     /\ IF req.forced
                          THEN /\ queuedSave(Call([isArray |-> TRUE, posts |-> result.posts],
                                                  Reason(req.kind), saveQueue))
                               /\ reqs' = [reqs EXCEPT ![r] =
                                     [@ EXCEPT !.pc = "save", !.data = result,
                                               !.call = Len(calls) + 1]]
                          ELSE /\ reqs' = [reqs EXCEPT ![r] =
                                     [@ EXCEPT !.pc = "done", !.data = result, !.resp = "200"]]
                               /\ UNCHANGED <<calls, saveQueue>>
                     /\ UNCHANGED <<isRefreshing, cronState>>
    /\ UNCHANGED <<clock, retentionCfg, file, archive, enabled, probe>>

\* The task of the refresh's saveSnapshot settles: the return and the finally
\* of refreshAndSnapshot, server.js:229-233, then the caller: the POST handler
\* awaits another load(), server.js:356; runCronRefresh records the outcome,
\* server.js:246-252.
RefreshSaved(r) ==
    /\ reqs[r].pc = "save"
    /\ calls[reqs[r].call].st \in Settled
    /\ isRefreshing' = ReleaseRefresh(reqs[r], isRefreshing)
    /\ LET req == reqs[r]
           ok == calls[req.call].st = "fulfilled"
       IN  /\ reqs' = [reqs EXCEPT ![r] =
                 IF ~ ok THEN Failed(req)
                 ELSE IF req.kind = "cron" THEN [req EXCEPT !.pc = "done", !.resp = "ok"]
                 ELSE [req EXCEPT !.pc = "count"]]
           /\ cronState' =
                 IF req.kind # "cron" THEN cronState
                 ELSE IF ok THEN [cronState EXCEPT !.lastSuccessAt = clock, !.lastError = "null"]
                 ELSE [cronState EXCEPT !.lastError = "TypeError"]
    /\ UNCHANGED <<storeVars, enabled, cache, probe>>

\* The load() of the POST handler returns: server.js:356-372.
\* (store.snapshots || []).length throws on a null store.
CountLoaded(r) ==
    /\ reqs[r].pc = "count"
    /\ \E outcome \in ReadOutcomes(file) :
          reqs' = [reqs EXCEPT ![r] =
              [@ EXCEPT !.pc = "done",
                        !.resp = IF load(file, outcome).kind = "null" THEN "500" ELSE "200"]]
    /\ UNCHANGED <<storeVars, enabled, isRefreshing, cache, cronState, probe>>

(* ------------------- GET /api/content/overview: topPosts ------------- *)
MaxTop == 10
MinPerSource == 2

\* sourcePosts.slice(0, MIN_PER_SOURCE) pushed post by post, server.js:282-286.
\* acc: the list topPosts and the set picked.
RECURSIVE PushPicked(_, _)
PushPicked(slice, acc) ==
    IF slice = <<>> \/ Len(acc.top) >= MaxTop THEN acc
    ELSE PushPicked(Tail(slice),
                    [top |-> Append(acc.top, Head(slice)),
                     picked |-> acc.picked \cup {Head(slice).postId}])

\* the loop over the active sources, server.js:280-287
RECURSIVE PickPerSource(_, _, _)
PickPerSource(active, posts, acc) ==
    IF active = <<>> THEN acc
    ELSE LET sourcePosts == SelectSeq(posts, LAMBDA post : post.source = Head(active))
             slice == SubSeq(sourcePosts, 1,
                             IF Len(sourcePosts) < MinPerSource THEN Len(sourcePosts)
                             ELSE MinPerSource)
         IN  PickPerSource(Tail(active), posts, PushPicked(slice, acc))

\* the loop over data.posts that fills the list, server.js:289-293
RECURSIVE FillTop(_, _, _)
FillTop(posts, top, picked) ==
    IF posts = <<>> \/ Len(top) >= MaxTop THEN top
    ELSE IF Head(posts).postId \in picked THEN FillTop(Tail(posts), top, picked)
    ELSE FillTop(Tail(posts), Append(top, Head(posts)), picked)

\* topPosts of the overview, server.js:273-293. data.posts are the scored posts
\* in the order of scoreAll; an entry of the list is the post it summarizes.
topPosts(data) ==
    LET activeSources == SelectSeq(Sources, LAMBDA source : data.sources[source].count > 0)
        acc == PickPerSource(activeSources, data.posts, [top |-> <<>>, picked |-> {}])
    IN  FillTop(data.posts, acc.top, acc.picked)

(* ------------------------------- start-up ------------------------------ *)
\* Dates of entries written by earlier runs: older than 90 days, exactly 90
\* days and exactly one day before start-up, at start-up, and unparseable.
InitDates ==
    { InitClock - DefaultRetentionDays * HoursPerDay - 1,
      InitClock - DefaultRetentionDays * HoursPerDay,
      InitClock - HoursPerDay,
      InitClock,
      BadDate }

\* Entries are appended with the date of their save: the parseable dates of a
\* file the program wrote are in non-decreasing order.
DatesSorted(snaps) ==
    \A i, j \in 1..Len(snaps) :
        (i < j /\ toDateMs(snaps[i].date) # NullMs /\ toDateMs(snaps[j].date) # NullMs)
            => snaps[i].date <= snaps[j].date

InitEntries == { Entry(d, d, "manual", <<>>) : d \in InitDates } \cup {NullEntry}

InitSnaps ==
    { s \in UNION { [1..n -> InitEntries] : n \in 0..MaxInitEntries } : DatesSorted(s) }

InitFiles ==
    { FileOf(k, <<>>) : k \in {"absent", "corrupt", "null", "nosnap", "badsnap"} }
        \cup { FileOf("json", s) : s \in InitSnaps }

RetentionConfigs == {0, -3, 2}

\* no function of the analyzer or the scorer has been called
NoProbe == [fn |-> "none"]

\* The server's state before the first request.
HandlersIdle ==
    /\ isRefreshing = FALSE
    /\ cache = [data |-> NoData, fetchedAt |-> 0]
    /\ cronState = [lastRunAt |-> 0, lastSuccessAt |-> 0, lastError |-> "null"]
    /\ reqs = <<>>

ServerIdle ==
    /\ HandlersIdle
    /\ probe = NoProbe

StoreIdle ==
    /\ clock = InitClock
    /\ archive = {}
    /\ saveQueue = 0
    /\ calls = <<>>

\* The sources enabled by default (no API credentials in the environment),
\* with the naver credentials, and with all of them.
EnabledConfigs == { {"reddit", "rss"}, {"reddit", "naver", "rss"}, SourceSet }

(* The store under concurrent callers of saveSnapshot. *)
Init ==
    /\ StoreIdle
    /\ retentionCfg \in RetentionConfigs
    /\ file \in InitFiles
    /\ enabled = {"reddit", "rss"}
    /\ ServerIdle

BodyStep ==
    \/ \E c \in 1..Len(calls) : BodyStart(c)
    \/ \E c \in 1..Len(calls) : LoadDone(c)
    \/ \E c \in 1..Len(calls) : PrimaryWriteDone(c)
    \/ \E c \in 1..Len(calls) : ArchiveDone(c)

Next ==
    \/ SaveSnapshotCall
    \/ BodyStep
    \/ Tick

Spec == Init /\ [][Next]_vars

(* The server: refreshes, cron ticks and reads, with the default sources. *)
ServerKinds == {"posts", "rejected"}

\* The state file the server finds: none, the JSON value null, or one entry.
ServerFiles ==
    { FileOf("absent", <<>>), FileOf("null", <<>>),
      FileOf("json", <<Entry(InitClock, InitClock, "cron", <<>>)>>) }

InitServer ==
    /\ StoreIdle
    /\ retentionCfg = 0
    /\ file \in ServerFiles
    /\ enabled = {"reddit", "rss"}
    /\ ServerIdle

NextServer ==
    \/ Len(reqs) < MaxRequests /\ PostRefresh
    \/ Len(reqs) < MaxRequests /\ CronTick
    \/ Len(reqs) < MaxRequests /\ GetRequest
    \/ \E r \in 1..Len(reqs) : FetchSettled(r, ServerKinds)
    \/ \E r \in 1..Len(reqs) : GetLoadDone(r)
    \/ \E r \in 1..Len(reqs) : RefreshSaved(r)
    \/ \E r \in 1..Len(reqs) : CountLoaded(r)
    \/ BodyStep
    \/ Tick

SpecServer == InitServer /\ [][NextServer]_vars

(* The handlers on a cache an earlier fetch cycle has filled, at every age of
   that cache, or on a cold cache; a state file as the program leaves it. *)
\* The result an earlier cycle cached at a given time: every enabled source
\* had returned two posts and an error.
EarlierResult(en, at) ==
    LET settled == [s \in SourceSet |-> IF s \in en THEN "partial" ELSE "empty"]
        posts == UniquePosts(AllPosts(en, settled))
    IN  Result([s \in SourceSet |-> SourceState(s, en, settled[s])],
               posts, analyzeAll(posts, <<>>), at)

\* the cache is cold, or was written just now, or one TTL ago
InitCaches(en) ==
    {[data |-> NoData, fetchedAt |-> 0]}
      \cup { [data |-> EarlierResult(en, at), fetchedAt |-> at] :
               at \in {InitClock, InitClock - CacheTTL} }

InitCache ==
    /\ StoreIdle
    /\ retentionCfg = 0
    /\ file \in { FileOf("absent", <<>>),
                  FileOf("json", <<Entry(InitClock, InitClock, "cron", <<>>)>>) }
    /\ enabled = {"reddit", "rss"}
    /\ isRefreshing = FALSE
    /\ cache \in InitCaches(enabled)
    /\ cronState = [lastRunAt |-> 0, lastSuccessAt |-> 0, lastError |-> "null"]
    /\ reqs = <<>>
    /\ probe = NoProbe

NextCache ==
    \/ Len(reqs) < MaxRequests /\ PostRefresh
    \/ Len(reqs) < MaxRequests /\ GetRequest
    \/ \E r \in 1..Len(reqs) : FetchSettled(r, ServerKinds)
    \/ \E r \in 1..Len(reqs) : GetLoadDone(r)
    \/ \E r \in 1..Len(reqs) : RefreshSaved(r)
    \/ \E r \in 1..Len(reqs) : CountLoaded(r)
    \/ BodyStep
    \/ Tick

SpecCache == InitCache /\ [][NextCache]_vars

(* One fetch cycle on a cold cache, over every way the sources can settle,
   with a state file as the program leaves it: none yet, cut short by an
   interrupted write, or the JSON of a list of entries. *)
CycleFiles ==
    { FileOf(k, <<>>) : k \in {"absent", "corrupt"} }
        \cup { FileOf("json", s) :
                 s \in { t \in InitSnaps : \A i \in 1..Len(t) : ~ t[i].null } }

InitCycle ==
    /\ StoreIdle
    /\ retentionCfg = 0
    /\ file \in CycleFiles
    /\ enabled \in EnabledConfigs
    /\ ServerIdle

NextCycle ==
    \/ reqs = <<>> /\ GetRequest
    \/ \E r \in 1..Len(reqs) : FetchSettled(r, FetchKinds)
    \/ \E r \in 1..Len(reqs) : GetLoadDone(r)

SpecCycle == InitCycle /\ [][NextCycle]_vars

(* One fetch cycle of the default sources over any state file, the malformed
   ones included. *)
InitAnyFile ==
    /\ StoreIdle
    /\ retentionCfg = 0
    /\ file \in InitFiles
    /\ enabled = {"reddit", "rss"}
    /\ ServerIdle

SpecAnyFile == InitAnyFile /\ [][NextCycle]_vars

(* One fetch cycle with every source enabled, the adapters settling one by
   one in any order. *)
MergeKinds == {"posts", "partial", "rejected"}

InitMerge ==
    /\ StoreIdle
    /\ retentionCfg = 0
    /\ file = FileOf("absent", <<>>)
    /\ enabled = SourceSet
    /\ ServerIdle

NextMerge ==
    \/ reqs = <<>> /\ GetRequest
    \/ \E r \in 1..Len(reqs) : AdapterSettles(r, MergeKinds)
    \/ \E r \in 1..Len(reqs) : MergeSettled(r)
    \/ \E r \in 1..Len(reqs) : GetLoadDone(r)

SpecMerge == InitMerge /\ [][NextMerge]_vars

(* ---------------- calls of single functions on bounded inputs ---------- *)
\* A call about to be made: the function and its arguments.
Probe(fn, arg) == [fn |-> fn, arg |-> arg, done |-> FALSE, out |-> <<>>]

\* The process is idle but for the call examined.
ProbeIdle ==
    /\ StoreIdle
    /\ retentionCfg = 0
    /\ file = FileOf("absent", <<>>)
    /\ enabled = {"reddit", "rss"}
    /\ HandlersIdle

\* The call returns out.
Returns(fn, out) ==
    /\ probe.fn = fn
    /\ ~ probe.done
    /\ probe' = [probe EXCEPT !.done = TRUE, !.out = out]
    /\ UNCHANGED <<storeVars, enabled, isRefreshing, cache, cronState, reqs>>

\* all sequences over a set up to a length
SeqsUpTo(S, n) == UNION { [1..k -> S] : k \in 0..n }

(* The deduplication of a merged list, server.js:187-193. *)
DedupPosts ==
    { [source |-> s, postId |-> id, viewCount |-> v] :
        s \in {"reddit", "rss"}, id \in {1, 2}, v \in {10, 20} }

InitDedup ==
    /\ ProbeIdle
    /\ probe \in { Probe("uniquePosts", l) : l \in SeqsUpTo(DedupPosts, MaxPosts) }

NextDedup == Returns("uniquePosts", UniquePosts(probe.arg))

SpecDedup == InitDedup /\ [][NextDedup]_vars

(* detectCross and analyzeTrend on a history of view counts. The histories
   are a run of one value, a shorter run of another and two last points. *)
Rep(v, n) == [i \in 1..n |-> v]

ViewValues == {0, 1, 3, 40}

Tails == { <<c, d>> : c \in ViewValues, d \in ViewValues } \cup {<<>>}

Histories ==
    UNION { IF len < n + Len(tail) THEN {}
            ELSE { Rep(a, len - n - Len(tail)) \o Rep(b, n) \o tail :
                     a \in ViewValues, b \in ViewValues } :
            len \in 0..MaxHistory, n \in {0, 5, 6}, tail \in Tails }

InitTrend ==
    /\ ProbeIdle
    /\ probe \in { Probe("detectCross", v) : v \in Histories }

NextTrend ==
    Returns("detectCross",
            [cross |-> detectCross(probe.arg), trend |-> TrendCross(probe.arg),
             growth |-> calcGrowthScore(probe.arg)])

SpecTrend == InitTrend /\ [][NextTrend]_vars

(* calcViewVelocity on one post of any source, at the start-up clock. *)
PublishTimes ==
    { InitClock - h : h \in {0, 1, 2, 24, 48, 240} } \cup {InitClock + 5, BadDate}

CounterValues == {0, 1, 7, 100, 1000, 5000}

VelocityPosts ==
    { [source |-> s, publishedAt |-> t, viewCount |-> v] :
        s \in SourceSet, t \in PublishTimes, v \in CounterValues }

InitVelocity ==
    /\ ProbeIdle
    /\ probe \in { Probe("calcViewVelocity", post) : post \in VelocityPosts }

NextVelocity == Returns("calcViewVelocity", calcViewVelocity(probe.arg, clock))

SpecVelocity == InitVelocity /\ [][NextVelocity]_vars

(* The velocity factor of two rss posts, which carry no counter
   (normalizeItem, rss-client.js:28-43: viewCount is undefined, read as 0). *)
RssAges == {0, 1, 5, 12, 23, 24, 30, 48, 72, 120}

RssPost(age) == [source |-> "rss", publishedAt |-> InitClock - age, viewCount |-> 0]

\* the velocity factor of score, content-scorer.js:182-183, in tenths
VelocityFactor(post, now) == normalizeVelocity(calcViewVelocity(post, now), post.source)

InitRecency ==
    /\ ProbeIdle
    /\ probe \in { Probe("rssVelocity", <<RssPost(a), RssPost(b)>>) : a \in RssAges, b \in RssAges }

NextRecency ==
    Returns("rssVelocity",
            <<VelocityFactor(probe.arg[1], clock), VelocityFactor(probe.arg[2], clock)>>)

SpecRecency == InitRecency /\ [][NextRecency]_vars

(* calcTopicScore and calcChannelRelative on the same counter and the same
   average. *)
RatioInputs ==
    { [post |-> ScoredInput("reddit", 1, "Rust tips", InitClock, v, 0, 0),
       avg |-> [sum |-> x, n |-> n]] :
        v \in 0..MaxCounter, x \in 0..MaxCounter, n \in 1..3 }

InitRatio ==
    /\ ProbeIdle
    /\ probe \in { Probe("ratioFactors", in) : in \in RatioInputs }

NextRatio ==
    Returns("ratioFactors",
            [topic |-> calcTopicScore(probe.arg.post, [t \in Topics |-> probe.arg.avg]),
             channel |-> calcChannelRelative(probe.arg.post, probe.arg.avg)])

SpecRatio == InitRatio /\ [][NextRatio]_vars

(* scoreAll on a batch of posts of two sources, and on the posts of each
   source alone; no snapshot history. *)
BatchSources == {"reddit", "naver"}

BatchPosts ==
    { ScoredInput(s, 1, title, InitClock - 2, v, 0, 0) :
        s \in BatchSources, title \in {"Rust tips", "Sourdough"}, v \in {10, 50, 100} }

OfSource(posts, s) == SelectSeq(posts, LAMBDA p : p.source = s)

InitScoreAll ==
    /\ ProbeIdle
    /\ probe \in { Probe("scoreAll", l) : l \in SeqsUpTo(BatchPosts, MaxPosts) }

NextScoreAll ==
    Returns("scoreAll",
            [all |-> scoreAll(probe.arg, <<>>, clock),
             own |-> [s \in BatchSources |-> scoreAll(OfSource(probe.arg, s), <<>>, clock)]])

SpecScoreAll == InitScoreAll /\ [][NextScoreAll]_vars

(* score on one post of any source, with the averages and the history of its
   context. *)
ScoreHistories ==
    { <<>>, Rep(1, LongMA) \o <<40>>, Rep(40, LongMA) \o <<0>>,
      Rep(1, LongMA - ShortMA) \o Rep(40, ShortMA) }

ScoreAverages == { NoMean, [sum |-> 10, n |-> 1], [sum |-> 300, n |-> 1] }

ScoreInputs ==
    { [post |-> ScoredInput(s, 1, "Rust tips", t, v, l, 0),
       context |-> [channelAvg |-> ca, topicAvg |-> [topic \in Topics |-> ta], snapshots |-> h]] :
        s \in SourceSet, t \in {InitClock - 1, InitClock - 48, BadDate},
        v \in {0, 10, 1000}, l \in {0, 1, 2000},
        ca \in ScoreAverages, ta \in {NoMean, [sum |-> 10, n |-> 1]}, h \in ScoreHistories }

InitScore ==
    /\ ProbeIdle
    /\ probe \in { Probe("score", in) : in \in ScoreInputs }

NextScore == Returns("score", score(probe.arg.post, probe.arg.context, clock))

SpecScore == InitScore /\ [][NextScore]_vars

(* generateSignals on scored posts, strategy-advisor.js:53-121. *)
ScoredPost(title, viewCount, total) ==
    [post |-> [title |-> title, viewCount |-> viewCount],
     topic |-> detectTopic(title),
     scoring |-> [total |-> total]]

\* short batches whose totals lie about the two thresholds
ThresholdBatches ==
    SeqsUpTo({ ScoredPost(t, 10, total) :
                 t \in {"Rust tips", "Sourdough"}, total \in {250, 300, 595, 600} }
               \cup {ScoredPost("Notion workflow", 10, 250)},
             MaxPosts)

\* a run of posts of one topic, then a run of posts of another
ShareBatches ==
    { Rep(ScoredPost("Rust tips", 10, 500), n) \o Rep(ScoredPost("Sourdough", 30, 400), m) :
        n \in 0..MaxRun, m \in 0..MaxRun }

\* a run of posts without a keyword, then posts of the titles of the model
TitleBatches ==
    { Rep(ScoredPost("Sourdough", 10, 500), lead) \o tail :
        lead \in {0, TopTitles - 1, TopTitles},
        tail \in SeqsUpTo({ ScoredPost(t, 10, 500) : t \in Titles \ {""} }, MaxTail) }

InitAdvisor ==
    /\ ProbeIdle
    /\ probe \in { Probe("generateSignals", l) :
                     l \in ThresholdBatches \cup ShareBatches \cup TitleBatches }

NextAdvisor == Returns("generateSignals", generateSignals(probe.arg))

SpecAdvisor == InitAdvisor /\ [][NextAdvisor]_vars

(* The core on a batch of posts as getData runs it, server.js:198-200: the
   scorer, the analyzer and the advisor; no snapshot history. *)
CorePosts ==
    { ScoredInput(s, 1, title, InitClock - 2, v, 0, 0) :
        s \in BatchSources, title \in {"Rust tips", "Sourdough"}, v \in {10, 100} }

InitCore ==
    /\ ProbeIdle
    /\ probe \in { Probe("core", l) : l \in SeqsUpTo(CorePosts, MaxPosts) }

NextCore ==
    LET scored == scoreAll(probe.arg, <<>>, clock)
        advice == generateSignals(scored)
    IN  Returns("core", [scored |-> scored,
                         trends |-> analyzeAll(probe.arg, <<>>),
                         signals |-> advice.signals,
                         portfolio |-> advice.portfolio])

SpecCore == InitCore /\ [][NextCore]_vars

(* topPosts on the data of a fetch cycle, server.js:273-293. *)
\* The postId of the k-th post of a source: the reddit and naver adapters put
\* the name of the source in front of the id of the platform
\* (reddit-client.js:44, naver-client.js:95); the twitter, youtube and rss
\* adapters hand on the id, the video id or the guid as it comes, which is
\* either different for every source or a bare number.
PostIdOf(s, k, bare) ==
    IF bare /\ s \in {"twitter", "youtube", "rss"} THEN k ELSE 10 * SourceIndex(s) + k

\* The total of the k-th post of a source: the sources one after the other,
\* the k-th posts of all sources together, or the later posts of every other
\* source ahead of its earlier ones.
TotalOf(s, k, pattern) ==
    CASE pattern = "bySource" -> 1000 - 100 * SourceIndex(s) - 10 * k
      [] pattern = "byRank" -> 1000 - 100 * k - 10 * SourceIndex(s)
      [] OTHER -> IF SourceIndex(s) % 2 = 0 THEN 500 + 100 * k - 10 * SourceIndex(s)
                  ELSE 500 - 100 * k - 10 * SourceIndex(s)

RECURSIVE PostsOfCounts(_, _, _, _)
PostsOfCounts(walk, count, bare, pattern) ==
    IF walk = <<>> THEN <<>>
    ELSE [k \in 1..count[Head(walk)] |->
             [source |-> Head(walk), postId |-> PostIdOf(Head(walk), k, bare),
              scoring |-> [total |-> TotalOf(Head(walk), k, pattern)]]]
           \o PostsOfCounts(Tail(walk), count, bare, pattern)

\* the data of a cycle in which each source supplied count[s] posts
OverviewData(count, bare, pattern) ==
    [sources |-> [s \in SourceSet |-> [count |-> count[s]]],
     posts |-> SortByTotal(PostsOfCounts(Sources, count, bare, pattern))]

InitOverview ==
    /\ ProbeIdle
    /\ probe \in { Probe("topPosts", OverviewData(count, bare, pattern)) :
                     count \in [SourceSet -> 0..MaxPerSource], bare \in BOOLEAN,
                     pattern \in {"bySource", "byRank", "mixed"} }

NextOverview == Returns("topPosts", topPosts(probe.arg))

SpecOverview == InitOverview /\ [][NextOverview]_vars

(* ======================= the snapshot store (Spec) ===================== *)
\* The entries direct callers appended: each carries the posts of its call,
\* the entries found at start-up carry none.
NewEntries(snaps) == SelectSeq(snaps, LAMBDA e : ~ e.null /\ e.posts # <<>>)

\* The bodies run one at a time, in call order.
Serialized ==
    \A c, d \in 1..Len(calls) :
        (c < d /\ calls[d].st # "queued") => calls[c].st \in Settled

\* the calls whose primary write went through
Wrote == { c \in 1..Len(calls) : calls[c].primary = "ok" }

\* the retention window of the configuration, in hours: 90 days by default,
\* one day at least
WindowHours ==
    IF retentionCfg = 0 THEN DefaultRetentionDays * HoursPerDay
    ELSE IF retentionCfg < 1 THEN HoursPerDay
    ELSE retentionCfg * HoursPerDay

Parseable(e) == toDateMs(e.date) # NullMs

\* C1: the bodies of concurrent saveSnapshot calls run one at a time in call
\* order, and once every call has settled with its primary write done, the
\* persisted state holds exactly one new entry per call, in call order.
C1_NoLostUpdate ==
    /\ Serialized
    /\ (/\ calls # <<>>
        /\ \A c \in 1..Len(calls) : calls[c].st = "fulfilled" /\ calls[c].primary = "ok")
       => /\ file.kind = "json"
          /\ NewEntries(file.snaps) = [c \in 1..Len(calls) |-> EntryOf(calls[c])]

\* C2: a save whose body fails is the only one to see the failure: a task is
\* rejected only when its own body threw, a save queued behind a failed one
\* runs its body, and bodies start in call order.
C2_FailureIsolated ==
    /\ Serialized
    /\ \A c \in 1..Len(calls) :
          /\ calls[c].st = "rejected" => ~ calls[c].data.isArray
          /\ (calls[c].st = "fulfilled") => calls[c].primary # "none"
          /\ (calls[c].st = "queued" /\ QueuePromise(calls, calls[c].prev) # "pending")
                => ENABLED BodyStart(c)

\* a save queued behind a rejected one has run and returned a path
C2_Witness ==
    \E c \in 2..Len(calls) :
        /\ calls[c].prev = c - 1
        /\ calls[c - 1].st = "rejected"
        /\ calls[c].st = "fulfilled" /\ calls[c].res = "path"

\* C5: a failing write of the primary state file makes the saveSnapshot call
\* fail (its promise rejects).
C5_PrimaryFailurePropagates ==
    \A c \in 1..Len(calls) : calls[c].primary = "failed" => calls[c].st = "rejected"

\* C6: when the primary write went through and the archive write (or its
\* mkdir) fails, the call does not raise: it resolves with path null and the
\* error, and the persisted state then ends with the new entry.
C6_ArchiveFailureReported ==
    [][\A c \in 1..Len(calls) :
          (calls[c].st = "archive" /\ calls'[c].archived = "failed")
            => /\ calls'[c].st = "fulfilled"
               /\ calls'[c].res = "nopath_error"
               /\ calls'[c].primary = "ok"
               /\ file'.kind = "json"
               /\ file'.snaps # <<>>
               /\ file'.snaps[Len(file'.snaps)] = EntryOf(calls[c])]_vars

C6_Witness ==
    \E c \in 1..Len(calls) :
        /\ calls[c].primary = "ok" /\ calls[c].archived = "failed"
        /\ calls[c].st = "fulfilled" /\ calls[c].res = "nopath_error"

\* C7: a saveSnapshot that writes the primary state leaves in it no entry with
\* a parseable date older than the retention window (90 days by default, one
\* day at least) counted back from the date of the save, and every entry it
\* loaded whose date cannot be parsed.
C7_Retention ==
    [][\A c \in 1..Len(calls) :
          (calls[c].st = "write" /\ calls'[c].primary = "ok")
            => /\ file'.kind = "json"
               /\ \A i \in 1..Len(file'.snaps) :
                     Parseable(file'.snaps[i])
                        => file'.snaps[i].date >= calls[c].now - WindowHours
               /\ SelectSeq(file'.snaps, LAMBDA e : ~ Parseable(e))
                     = SelectSeq(calls[c].existing, LAMBDA e : ~ Parseable(e))]_vars

\* a save has written after loading an entry older than the window and an
\* entry without a parseable date
C7_Witness ==
    \E c \in 1..Len(calls) :
        /\ calls[c].primary = "ok"
        /\ \E i \in 1..Len(calls[c].existing) :
              /\ Parseable(calls[c].existing[i])
              /\ calls[c].existing[i].date < calls[c].now - WindowHours
        /\ \E i \in 1..Len(calls[c].existing) : ~ Parseable(calls[c].existing[i])

\* C8: the entries of the persisted state are in the order of their creation:
\* their dates never decrease along the list, and the entry of the latest save
\* that wrote the state is the last one.
C8_Ordered ==
    file.kind = "json"
      => /\ DatesSorted(file.snaps)
         /\ Wrote # {}
              => /\ file.snaps # <<>>
                 /\ file.snaps[Len(file.snaps)]
                      = EntryOf(calls[CHOOSE c \in Wrote : \A d \in Wrote : d <= c])

\* two saves made at different times have both written
C8_Witness ==
    /\ file.kind = "json"
    /\ \E i \in 1..Len(file.snaps) - 1 :
          /\ file.snaps[i].posts # <<>> /\ file.snaps[i + 1].posts # <<>>
          /\ file.snaps[i].date < file.snaps[i + 1].date

\* the entry is inside the retention window counted back from now, or its
\* date cannot be parsed
Retained(e, now) == e.null \/ ~ Parseable(e) \/ e.date >= now - WindowHours

\* C27: when a saveSnapshot call writes the primary state, the state it leaves
\* holds every entry that was in the state file before the write and is inside
\* the retention window or has no parseable date, in the original order, then
\* the new entry: a failed read of the file drops nothing.
C27_HistoryKept ==
    [][\A c \in 1..Len(calls) :
          (calls[c].st = "write" /\ calls'[c].primary = "ok")
            => /\ file'.kind = "json"
               /\ file'.snaps # <<>>
               /\ file'.snaps[Len(file'.snaps)] = EntryOf(calls[c])
               /\ SelectSeq(SubSeq(file'.snaps, 1, Len(file'.snaps) - 1),
                            LAMBDA e : Retained(e, clock))
                    = SelectSeq(StoreSnaps(file), LAMBDA e : Retained(e, clock))]_vars

(* ========================= the server (SpecServer) ===================== *)
\* the refreshes that have started and are not over
InFlight(rs) == { r \in 1..Len(rs) : rs[r].forced /\ rs[r].pc \in {"fetch", "load", "save"} }

\* a refresh request (manual or cron) arrives in this step
Arrives == Len(reqs') = Len(reqs) + 1 /\ reqs'[Len(reqs')].forced

\* C3: at most one refresh is in flight at any time, manual or cron; a manual
\* refresh that arrives while one is running is answered 409 at once and a
\* cron tick that arrives then is skipped, neither starting a fetch or a save
\* nor touching the cache or the state file.
C3_OneRefresh ==
    [][/\ Cardinality(InFlight(reqs')) <= 1
       /\ (Arrives /\ InFlight(reqs) # {})
            => /\ reqs'[Len(reqs')].pc = "done"
               /\ reqs'[Len(reqs')].resp
                    = IF reqs'[Len(reqs')].kind = "manual" THEN "409" ELSE "skipped"
               /\ UNCHANGED <<calls, saveQueue, cache, file, archive, cronState>>]_vars

\* a manual refresh has been answered 409 while a cron refresh is running
C3_Witness ==
    /\ Len(reqs) = 2
    /\ InFlight(reqs) = {1}
    /\ reqs[1].kind = "cron" /\ reqs[1].pc = "save"
    /\ reqs[2].kind = "manual" /\ reqs[2].resp = "409"

\* C4: the flag is set exactly while a refresh is in flight: it is cleared
\* when the refresh is over, by a return or by a throw, so that the next
\* refresh request is accepted; a request answered as already in progress
\* leaves the flag set and the running refresh as it was.
C4_FlagReleased ==
    [][/\ isRefreshing' <=> InFlight(reqs') # {}
       /\ (Arrives /\ InFlight(reqs) = {}) => reqs'[Len(reqs')].pc = "fetch"
       /\ (Arrives /\ InFlight(reqs) # {})
            => /\ isRefreshing'
               /\ SubSeq(reqs', 1, Len(reqs)) = reqs
               /\ UNCHANGED <<calls, saveQueue>>]_vars

\* a refresh has thrown (answered 500) and the next request is accepted
C4_Witness ==
    /\ Len(reqs) = 2
    /\ reqs[1].kind = "manual" /\ reqs[1].resp = "500"
    /\ reqs[2].forced /\ reqs[2].pc = "fetch"
    /\ isRefreshing

\* the handler run has gone through a fetch cycle and written its result to
\* the cache
WroteCache(req) == req.settled # <<>> /\ req.data # NoData

\* C28: a fetch cycle never writes the cache after a cycle that started later
\* has written it, and a cycle started by a read endpoint never writes the
\* cache while a refresh is in flight.
C28_NoStaleCacheWrite ==
    [][\A r \in 1..Len(reqs) :
          (reqs[r].pc = "load" /\ WroteCache(reqs'[r]))
            => /\ \A later \in (r + 1)..Len(reqs) : ~ WroteCache(reqs[later])
               /\ ~ reqs[r].forced => InFlight(reqs) = {}]_vars

(* ===================== the cache of getData (SpecCache) ================ *)
\* the cache holds a result younger than the TTL
YoungCache == cache.data # NoData /\ clock - cache.fetchedAt < CacheTTL

\* a handler run starts in this step: the run
Arrived == reqs'[Len(reqs')]

\* C29: a read endpoint that calls getData while the cache holds a result
\* younger than the TTL gets that result, starts no fetch, reads no snapshot
\* state and leaves the cache as it is; the getData of a refresh starts a fetch
\* cycle whatever the age of the cache, and the result of the cycle replaces
\* the cache.
C29_CacheFrame ==
    [][/\ (Len(reqs') = Len(reqs) + 1 /\ ~ Arrived.forced /\ YoungCache)
            => /\ Arrived.pc = "done" /\ Arrived.resp = "200"
               /\ Arrived.data = cache.data
               /\ Arrived.settled = <<>>
               /\ cache' = cache /\ file' = file /\ calls' = calls
       /\ (Len(reqs') = Len(reqs) + 1 /\ Arrived.forced /\ ~ isRefreshing)
            => /\ Arrived.pc = "fetch"
               /\ Arrived.data = NoData
               /\ cache' = cache
       /\ \A r \in 1..Len(reqs) :
             /\ reqs[r].pc = "done" => reqs'[r] = reqs[r]
             /\ (reqs[r].forced /\ reqs[r].pc = "load" /\ reqs'[r] # reqs[r])
                  => /\ reqs'[r].pc = "save"
                     /\ reqs'[r].data.sources = reqs[r].sources
                     /\ reqs'[r].data.fetchedAt = clock
                     /\ cache' = [data |-> reqs'[r].data, fetchedAt |-> clock]]_vars

\* on a cache written just now, a read endpoint was answered from the cache
\* and a refresh has then fetched and replaced the cached result
C29_Witness ==
    /\ Len(reqs) = 2
    /\ clock = InitClock
    /\ ~ reqs[1].forced /\ reqs[1].pc = "done" /\ reqs[1].settled = <<>>
    /\ reqs[1].data # NoData /\ reqs[1].data.fetchedAt = InitClock
    /\ reqs[2].forced /\ WroteCache(reqs[2])
    /\ cache.data = reqs[2].data
    /\ cache.data # reqs[1].data

(* ========================= a fetch cycle (SpecCycle) =================== *)
\* a source whose fetch rejected (or timed out), or returned no posts and errors
SourceFailed(kind) == kind \in {"rejected", "errors"}

PostsOf(data) == { data.posts[i] : i \in 1..Len(data.posts) }

\* C9: whichever enabled sources fail, the cycle completes: a failed source
\* has status 'error', a message and no post in the result, and every post the
\* other sources supplied is in the result with its trend.
C9_PartialFailure ==
    \A r \in 1..Len(reqs) :
        reqs[r].pc = "done"
          => /\ reqs[r].resp = "200"
             /\ \A s \in enabled :
                   IF SourceFailed(reqs[r].settled[s])
                     THEN /\ reqs[r].data.sources[s].status = "error"
                          /\ reqs[r].data.sources[s].count = 0
                          /\ reqs[r].data.sources[s].error # <<>>
                          /\ \A p \in PostsOf(reqs[r].data) : p.source # s
                     ELSE \A i \in 1..Len(Settle(s, reqs[r].settled[s]).posts) :
                            LET p == Settle(s, reqs[r].settled[s]).posts[i]
                            IN  /\ p \in PostsOf(reqs[r].data)
                                /\ \E j \in 1..Len(reqs[r].data.trends) :
                                      /\ reqs[r].data.trends[j].postId = p.postId
                                      /\ reqs[r].data.trends[j].source = p.source

\* a cycle is over in which one source rejected, one returned only errors and
\* one returned posts
C9_Witness ==
    \E r \in 1..Len(reqs) :
        /\ reqs[r].pc = "done" /\ reqs[r].resp = "200"
        /\ \E s \in enabled : reqs[r].settled[s] = "rejected"
        /\ \E s \in enabled : reqs[r].settled[s] = "errors"
        /\ \E s \in enabled : reqs[r].settled[s] = "partial"

(* ====================== any state file (SpecAnyFile) =================== *)
\* C10: whatever the state file holds (nothing, text that is not JSON, JSON
\* of another shape), a fetch cycle completes and each of its trends reports
\* no crossover.
C10_NoHistory ==
    \A r \in 1..Len(reqs) :
        reqs[r].pc = "done"
          => /\ reqs[r].resp = "200"
             /\ \A j \in 1..Len(reqs[r].data.trends) : reqs[r].data.trends[j].cross = "NONE"

(* ===================== the merge of a cycle (SpecMerge) ================ *)
\* the posts an adapter returned
Returned(r, s) ==
    IF reqs[r].settled[s] = "rejected" THEN <<>> ELSE Settle(s, reqs[r].settled[s]).posts

\* C11: whatever order the adapters' fetches complete in, the merged list is
\* the posts of reddit, then naver, twitter, youtube and rss, as each adapter
\* returned them, and the deduplication is applied to that list.
C11_MergeOrder ==
    \A r \in 1..Len(reqs) :
        reqs[r].pc \in {"load", "done"}
          => /\ reqs[r].all = Returned(r, "reddit") \o Returned(r, "naver")
                                \o Returned(r, "twitter") \o Returned(r, "youtube")
                                \o Returned(r, "rss")
             /\ reqs[r].unique = UniquePosts(reqs[r].all)

\* a cycle has merged after its fetches completed in the reverse of the source
\* order, reddit and rss both returning posts
C11_Witness ==
    \E r \in 1..Len(reqs) :
        /\ reqs[r].pc = "done"
        /\ reqs[r].order = <<"rss", "youtube", "twitter", "naver", "reddit">>
        /\ reqs[r].settled["reddit"] = "partial"
        /\ reqs[r].settled["rss"] = "posts"

(* ===================== the deduplication (SpecDedup) =================== *)
\* the positions of a list that hold the first post of their (source, postId)
FirstOfKey(l) ==
    { i \in 1..Len(l) :
        \A j \in 1..(i - 1) : l[j].source # l[i].source \/ l[j].postId # l[i].postId }

\* C12: after the deduplication no two posts have the same source and postId;
\* the posts kept are, in merge order, the first post of each (source, postId),
\* so every distinct key is retained and a postId seen under two sources is
\* kept under both.
C12_Dedup ==
    (probe.fn = "uniquePosts" /\ probe.done)
      => LET l == probe.arg
             out == probe.out
         IN  /\ \A i, j \in 1..Len(out) :
                   (out[i].source = out[j].source /\ out[i].postId = out[j].postId) => i = j
             /\ Len(out) = Cardinality(FirstOfKey(l))
             /\ \A k \in 1..Len(out) :
                   out[k] = l[CHOOSE i \in FirstOfKey(l) :
                                 Cardinality({ j \in FirstOfKey(l) : j < i }) = k - 1]

\* a list was deduplicated that repeats a key with other counters and holds
\* one postId under two sources
C12_Witness ==
    /\ probe.fn = "uniquePosts" /\ probe.done
    /\ Len(probe.arg) = 4 /\ Len(probe.out) = 3
    /\ \E i, j \in 1..4 :
          /\ i < j
          /\ probe.arg[i].source = probe.arg[j].source
          /\ probe.arg[i].postId = probe.arg[j].postId
          /\ probe.arg[i].viewCount # probe.arg[j].viewCount
    /\ \E i, j \in 1..3 :
          /\ probe.out[i].source # probe.out[j].source
          /\ probe.out[i].postId = probe.out[j].postId

(* ======================= the analyzer (SpecTrend) ====================== *)
RECURSIVE SumBetween(_, _, _)
SumBetween(v, lo, hi) == IF lo > hi THEN 0 ELSE v[lo] + SumBetween(v, lo + 1, hi)

\* the sum of the `period` values that end at point n of a history
WindowSum(v, n, period) == SumBetween(v, n - period + 1, n)

\* C13: on a history of fewer than LongMA + 1 points (31) detectCross reports
\* neither GOLDEN nor DEAD, whatever the values, and neither does the trend of
\* analyzeTrend.
C13_NoCrossOnShortHistory ==
    (probe.fn = "detectCross" /\ probe.done /\ Len(probe.arg) < LongMA + 1)
      => probe.out.cross = "NONE" /\ probe.out.trend = "NONE"

\* detectCross has run on exactly LongMA points whose short average is above
\* the long one
C13_Witness ==
    /\ probe.fn = "detectCross" /\ probe.done
    /\ Len(probe.arg) = LongMA
    /\ WindowSum(probe.arg, LongMA, ShortMA) * LongMA
          > WindowSum(probe.arg, LongMA, LongMA) * ShortMA
    /\ probe.out.cross = "NONE"

\* C14: on a history of at least LongMA + 1 points detectCross reports GOLDEN
\* exactly when the mean of the last ShortMA values was at most the mean of
\* the last LongMA values one point earlier and is above it at the last point,
\* DEAD exactly when it was at least that mean and is below it now, and NONE
\* otherwise.
C14_CrossRule ==
    (probe.fn = "detectCross" /\ probe.done /\ Len(probe.arg) >= LongMA + 1)
      => LET v == probe.arg
             n == Len(v)
             short == WindowSum(v, n, ShortMA) * LongMA
             long == WindowSum(v, n, LongMA) * ShortMA
             prevShort == WindowSum(v, n - 1, ShortMA) * LongMA
             prevLong == WindowSum(v, n - 1, LongMA) * ShortMA
         IN  probe.out.cross =
                IF prevShort <= prevLong /\ short > long THEN "GOLDEN"
                ELSE IF prevShort >= prevLong /\ short < long THEN "DEAD"
                ELSE "NONE"

\* GOLDEN was reported for a history whose two averages were equal one point
\* earlier
C14_Witness ==
    /\ probe.fn = "detectCross" /\ probe.done
    /\ Len(probe.arg) = LongMA + 1
    /\ WindowSum(probe.arg, LongMA, ShortMA) * LongMA
          = WindowSum(probe.arg, LongMA, LongMA) * ShortMA
    /\ probe.out.cross = "GOLDEN"

\* C16: the growth trend factor (in tenths) is 10 when detectCross reports
\* GOLDEN, 7 when the short moving average is above the long one without a
\* fresh crossover, 2 when detectCross reports DEAD and 5 otherwise, for every
\* history.
C16_GrowthFactor ==
    (probe.fn = "detectCross" /\ probe.done)
      => LET v == probe.arg
             n == Len(v)
             shortAbove ==
                 /\ n >= LongMA
                 /\ WindowSum(v, n, ShortMA) * LongMA > WindowSum(v, n, LongMA) * ShortMA
         IN  probe.out.growth =
                IF probe.out.cross = "GOLDEN" THEN 10
                ELSE IF shortAbove THEN 7
                ELSE IF probe.out.cross = "DEAD" THEN 2
                ELSE 5

(* ======================= velocity (SpecVelocity) ======================= *)
\* C15: for a post whose publish time is missing or cannot be parsed,
\* calcViewVelocity returns 0, for every source and every counter value.
C15_NoDateNoVelocity ==
    (probe.fn = "calcViewVelocity" /\ probe.done /\ probe.arg.publishedAt = BadDate)
      => probe.out = 0

(* ==================== rss velocity factor (SpecRecency) ================ *)
\* C19: of two rss posts the one published more recently never has the lower
\* velocity factor, and a post published today (less than a day ago) has a
\* strictly higher factor than a post published three days ago or earlier.
C19_RssRecency ==
    (probe.fn = "rssVelocity" /\ probe.done)
      => LET newer == probe.arg[1]
             older == probe.arg[2]
         IN  /\ newer.publishedAt >= older.publishedAt => probe.out[1] >= probe.out[2]
             /\ (/\ clock - newer.publishedAt < HoursPerDay
                 /\ clock - older.publishedAt >= 3 * HoursPerDay)
                  => probe.out[1] > probe.out[2]

(* ==================== the ratio factors (SpecRatio) =================== *)
\* C17: for the same counter and the same average the platform-relative
\* factor equals the topic performance factor, both being (in tenths) 10 for
\* a ratio of at least 2.0, 8 from 1.5, 6 from 1.0, 3 from 0.5, 1 below, and 5
\* for an average of zero.
C17_SameMapping ==
    (probe.fn = "ratioFactors" /\ probe.done)
      => LET v == probe.arg.post.viewCount
             avg == probe.arg.avg
             AtLeast(halves) == 2 * v * avg.n >= halves * avg.sum
             expected == IF avg.sum = 0 THEN 5
                         ELSE IF AtLeast(4) THEN 10
                         ELSE IF AtLeast(3) THEN 8
                         ELSE IF AtLeast(2) THEN 6
                         ELSE IF AtLeast(1) THEN 3
                         ELSE 1
         IN  probe.out.topic = expected /\ probe.out.channel = expected

(* ======================== scoreAll (SpecScoreAll) ====================== *)
\* C18: the posts of the other sources change nothing in the scoring of a
\* post: the scored posts of a source in the result of scoreAll on the whole
\* batch, with their topic performance and platform-relative factors, are
\* those scoreAll gives on the posts of that source alone.
C18_SourceIsolation ==
    (probe.fn = "scoreAll" /\ probe.done)
      => \A s \in BatchSources :
            SelectSeq(probe.out.all, LAMBDA q : q.post.source = s) = probe.out.own[s]

\* a batch of three reddit posts with the counters 100, 50 and 10 and one
\* naver post was scored: the platform-relative factors of the reddit posts are
\* 0.6, 0.3 and 0.1 of the weight, against their own mean 53.3
C18_Witness ==
    /\ probe.fn = "scoreAll" /\ probe.done
    /\ Len(probe.arg) = 4
    /\ \E i \in 1..4 : probe.arg[i].source = "naver" /\ probe.arg[i].viewCount = 100
    /\ LET reddit == SelectSeq(probe.out.all, LAMBDA q : q.post.source = "reddit")
       IN  /\ Len(reddit) = 3
           /\ [i \in 1..3 |-> reddit[i].post.viewCount] = <<100, 50, 10>>
           /\ [i \in 1..3 |-> reddit[i].scoring.factors.channelRelative]
                 = <<6 * WeightChannelRelative, 3 * WeightChannelRelative,
                     1 * WeightChannelRelative>>

\* the scored posts of a list that have a given total, in the order of the list
WithTotal(list, t) == SelectSeq(list, LAMBDA q : q.scoring.total = t)

\* C21: scoreAll returns one scored post per input post, by non-increasing
\* total, and the posts of one total are in their input order.
C21_SortedStable ==
    (probe.fn = "scoreAll" /\ probe.done)
      => LET out == probe.out.all
             mapped == MapScored(probe.arg, <<>>, clock)
         IN  /\ Len(out) = Len(probe.arg)
             /\ \A i \in 1..(Len(out) - 1) : out[i].scoring.total >= out[i + 1].scoring.total
             /\ \A i \in 1..Len(mapped) :
                   WithTotal(out, mapped[i].scoring.total)
                     = WithTotal(mapped, mapped[i].scoring.total)

\* a batch was sorted whose last post has the highest total and whose first two
\* posts are different posts of one total
C21_Witness ==
    /\ probe.fn = "scoreAll" /\ probe.done
    /\ Len(probe.arg) = 3
    /\ LET out == probe.out.all
       IN  /\ out[1].post = probe.arg[3]
           /\ out[2].post = probe.arg[1]
           /\ out[3].post = probe.arg[2]
           /\ out[1].scoring.total > out[2].scoring.total
           /\ out[2].scoring.total = out[3].scoring.total
           /\ out[2].post # out[3].post

(* ====================== the advisor (SpecAdvisor) ====================== *)
\* the call of generateSignals has returned
Advised == probe.fn = "generateSignals" /\ probe.done

\* the topics of the signals of one type, and their number
SignalTopics(type) ==
    { probe.out.signals[i].topic :
        i \in { j \in 1..Len(probe.out.signals) : probe.out.signals[j].type = type } }

SignalCount(type) == Len(SelectSeq(probe.out.signals, LAMBDA g : g.type = type))

\* the scored posts of a topic in the batch
PostsOfTopic(t) == SelectSeq(probe.arg, LAMBDA q : q.topic = t)

TotalOfTopic(t) ==
    SumSeq([i \in 1..Len(PostsOfTopic(t)) |-> PostsOfTopic(t)[i].scoring.total])

\* the entries of the portfolio of a topic
EntriesOf(t) == SelectSeq(probe.out.portfolio, LAMBDA e : e.topic = t)

\* C22: a topic gets one DOUBLE_DOWN signal exactly when its average score,
\* the mean of its totals to the hundredth of a point, is at least 60; it gets
\* one PIVOT_AWAY signal exactly when that average is below 30 and it has at
\* least 2 posts; a topic of one post gets no PIVOT_AWAY.
C22_ScoreSignals ==
    Advised
      => /\ \A t \in Topics :
               LET n == Len(PostsOfTopic(t))
               IN  IF n = 0
                   THEN t \notin SignalTopics("DOUBLE_DOWN") \cup SignalTopics("PIVOT_AWAY")
                   ELSE LET e == EntriesOf(t)[1]
                        IN  /\ Len(EntriesOf(t)) = 1
                            \* avgScore is the mean, to half a hundredth
                            /\ 2 * (e.avgScore * n - 10 * TotalOfTopic(t)) \in (1 - n)..n
                            /\ t \in SignalTopics("DOUBLE_DOWN") <=> e.avgScore >= 6000
                            /\ t \in SignalTopics("PIVOT_AWAY") <=> (e.avgScore < 3000 /\ n >= 2)
                            /\ n = 1 => t \notin SignalTopics("PIVOT_AWAY")
         /\ SignalCount("DOUBLE_DOWN") = Cardinality(SignalTopics("DOUBLE_DOWN"))
         /\ SignalCount("PIVOT_AWAY") = Cardinality(SignalTopics("PIVOT_AWAY"))

\* a batch of a topic at 60 points, a topic of two posts under 30 points and a
\* topic of one post under 30 points: one DOUBLE_DOWN, one PIVOT_AWAY
C22_Witness ==
    /\ Advised
    /\ Len(probe.arg) = 4
    /\ SignalTopics("DOUBLE_DOWN") = {"Programming"}
    /\ SignalTopics("PIVOT_AWAY") = {"Other"}
    /\ Len(PostsOfTopic("Productivity")) = 1
    /\ EntriesOf("Productivity")[1].avgScore = 2500
    /\ EntriesOf("Other")[1].avgScore = 2750

\* C23: a topic gets a CONCENTRATION_WARNING exactly when it holds at least
\* half of the posts of the batch.
C23_Concentration ==
    Advised
      => \A t \in Topics :
            t \in SignalTopics("CONCENTRATION_WARNING")
              <=> (Len(PostsOfTopic(t)) > 0 /\ 2 * Len(PostsOfTopic(t)) >= Len(probe.arg))

\* the topics of the UNEXPLORED signals, in the order of the signals
Unexplored ==
    LET g == SelectSeq(probe.out.signals, LAMBDA x : x.type = "UNEXPLORED")
    IN  [i \in 1..Len(g) |-> g[i].topic]

\* the topics of the keyword table that have no post in the batch
AbsentTopics ==
    { TopicTable[i] : i \in 1..Len(TopicTable) } \ { probe.arg[i].topic : i \in 1..Len(probe.arg) }

\* the number of keyword matches of a topic in the titles of the first 20 posts
MatchCount(t) ==
    SumBetween([i \in 1..Len(probe.arg) |-> KeywordMatches(probe.arg[i].post.title, t)],
               1, IF Len(probe.arg) < 20 THEN Len(probe.arg) ELSE 20)

\* topic a is listed before topic b: more matches, or as many and declared first
ListedBefore(a, b) ==
    \/ MatchCount(a) > MatchCount(b)
    \/ MatchCount(a) = MatchCount(b) /\ TopicIndex(a) < TopicIndex(b)

\* C24: at most 3 UNEXPLORED signals, each for a topic of the keyword table
\* without a post in the batch; they are the absent topics with the most
\* keyword matches in the titles of the first 20 posts, by decreasing count,
\* ties in the order of the table.
C24_Unexplored ==
    Advised
      => LET u == Unexplored
         IN  /\ Len(u) <= 3
             /\ \A i \in 1..Len(u) : u[i] \in AbsentTopics
             /\ \A i, j \in 1..Len(u) : i < j => ListedBefore(u[i], u[j])
             /\ \A a \in AbsentTopics :
                   (\A i \in 1..Len(u) : u[i] # a)
                     => (Len(u) = 3 /\ \A i \in 1..3 : ListedBefore(u[i], a))

\* after 19 posts without a keyword, a post of topic Finance whose title also
\* matches Career and a post of topic Productivity: Career, the only absent
\* topic with a match in the first 20 titles, is listed first, then the first
\* absent topics of the table
C24_Witness ==
    /\ Advised
    /\ Len(probe.arg) = 21
    /\ probe.arg[20].post.title = "Crypto trading job"
    /\ probe.arg[21].post.title = "Startup founder salary"
    /\ Unexplored = <<"Career", "AI", "Programming">>

\* the topics of the posts of the batch
BatchTopics == { probe.arg[i].topic : i \in 1..Len(probe.arg) }

\* the sum of one field over the entries of the portfolio
PortfolioSum(field) ==
    SumSeq([i \in 1..Len(probe.out.portfolio) |-> probe.out.portfolio[i][field]])

\* C26: on a batch that is not empty the portfolio has one entry per topic of
\* the batch, the videoCount values sum to the number of posts, each share is
\* within 0.5 of the exact percentage of its topic, and so the shares sum to
\* 100 within 0.5 per topic.
C26_Portfolio ==
    (Advised /\ probe.arg # <<>>)
      => LET pf == probe.out.portfolio
             n == Len(probe.arg)
         IN  /\ Len(pf) = Cardinality(BatchTopics)
             /\ { pf[i].topic : i \in 1..Len(pf) } = BatchTopics
             /\ \A i \in 1..Len(pf) : pf[i].videoCount = Len(PostsOfTopic(pf[i].topic))
             /\ PortfolioSum("videoCount") = n
             /\ \A i \in 1..Len(pf) :
                   /\ 2 * (pf[i].share * n - 100 * pf[i].videoCount) <= n
                   /\ 2 * (100 * pf[i].videoCount - pf[i].share * n) <= n
             /\ 2 * (PortfolioSum("share") - 100) <= Len(pf)
             /\ 2 * (100 - PortfolioSum("share")) <= Len(pf)

\* a batch of three posts of three topics: three entries of share 33, which
\* sum to 99
C26_Witness ==
    /\ Advised
    /\ Len(probe.arg) = 3
    /\ Len(probe.out.portfolio) = 3
    /\ \A i \in 1..3 : probe.out.portfolio[i].share = 33 /\ probe.out.portfolio[i].videoCount = 1
    /\ PortfolioSum("share") = 99

(* ========================== the core (SpecCore) ======================== *)
\* C25: on an empty list of posts scoreAll and analyzeAll return empty lists
\* and generateSignals returns an empty portfolio and no signals.
C25_EmptyBatch ==
    (probe.fn = "core" /\ probe.done /\ probe.arg = <<>>)
      => /\ probe.out.scored = <<>>
         /\ probe.out.trends = <<>>
         /\ probe.out.portfolio = <<>>
         /\ probe.out.signals = <<>>

(* ======================= the overview (SpecOverview) =================== *)
\* the scored posts of a source in the data, best first
BestOf(s) == SelectSeq(probe.arg.posts, LAMBDA post : post.source = s)

\* the posts the list owes to the sources: the best two of each, or its only one
Guaranteed ==
    UNION { { BestOf(s)[k] : k \in 1..(IF Len(BestOf(s)) < 2 THEN Len(BestOf(s)) ELSE 2) } :
              s \in SourceSet }

\* the place of a post in the data
PlaceOf(post) == CHOOSE i \in 1..Len(probe.arg.posts) : probe.arg.posts[i] = post

\* C30: topPosts has at most 10 entries, no post twice, the best two posts of
\* every source that supplied posts (its only post if it supplied one), and
\* its other entries are the best of the remaining posts: a post is left out
\* only when the list is full and every other entry ranks before it.
C30_TopPosts ==
    (probe.fn = "topPosts" /\ probe.done)
      => LET top == probe.out
             listed == { top[i] : i \in 1..Len(top) }
             posts == { probe.arg.posts[i] : i \in 1..Len(probe.arg.posts) }
         IN  /\ Len(top) <= 10
             /\ \A i, j \in 1..Len(top) : i < j => top[i] # top[j]
             /\ listed \subseteq posts
             /\ Guaranteed \subseteq listed
             /\ \A post \in posts \ listed :
                   /\ Len(top) = 10
                   /\ \A other \in listed \ Guaranteed : PlaceOf(other) < PlaceOf(post)

(* ============================ score (SpecScore) ======================== *)
\* a contribution (in tenths of a point) that is a normalized value between 0
\* and 1 times the weight
WithinWeight(contribution, weight) == contribution \in 0..(10 * weight)

\* C20: each of the five factor contributions of score lies between 0 and its
\* weight, the total is their sum and lies between 0 and 100 points.
C20_ScoreRange ==
    (probe.fn = "score" /\ probe.done)
      => LET f == probe.out.factors
         IN  /\ WithinWeight(f.viewVelocity, WeightViewVelocity)
             /\ WithinWeight(f.engagementRate, WeightEngagementRate)
             /\ WithinWeight(f.growthTrend, WeightGrowthTrend)
             /\ WithinWeight(f.topicPerformance, WeightTopicPerformance)
             /\ WithinWeight(f.channelRelative, WeightChannelRelative)
             /\ probe.out.total = f.viewVelocity + f.engagementRate + f.growthTrend
                                    + f.topicPerformance + f.channelRelative
             /\ probe.out.total \in 0..1000

\* a post has reached the full 100 points
C20_Witness ==
    /\ probe.fn = "score" /\ probe.done
    /\ probe.out.total = 1000
    /\ probe.out.signal = "DOUBLE_DOWN"

====
